---- MODULE Spec2Model ----
(***************************************************************************)
(* Model of the NavigatorAI travel assistant backend.                      *)
(*                                                                         *)
(*  - the MCP server (mcp_server/server.py): the conversation session      *)
(*    store, the /agent/execute, /invoke_tool and /conversation handlers,  *)
(*    and the bounded reasoning loop the agent executor is configured for; *)
(*  - the flight search tools (tools/travel_tools.py and                   *)
(*    tools/FlightSearchTool.py) with their fallback synthesis.            *)
(*                                                                         *)
(* Texts (queries, outputs, error messages) are sequences of one-character *)
(* strings, so that str.lower() and the substring test `word in query`     *)
(* are computed character by character as Python computes them.            *)
(***************************************************************************)
EXTENDS Integers, Sequences, FiniteSets, TLC

VARIABLES
    agent_executor,         \* "None" or "Ready": MCPServer.agent_executor
    now,                    \* wall clock, in whole hours
    conversation_sessions,  \* dict session_id -> reference into heap
    heap,                   \* the ConversationSession objects, by reference
    req,                    \* the suspended request handlers, one per connection slot
    arrivals,               \* number of requests received so far
    response,               \* the response sent last, with the request it answers
    loop,                   \* the reasoning loop of slot 1 (AgentExecutor state)
    fs,                     \* the flight search under test
    call                    \* the tool or helper call under test: inputs and result

vars == <<agent_executor, now, conversation_sessions, heap, req, arrivals, response, loop, fs,
          call>>

\* no call under test
IdleCall == [pc |-> "idle"]

----------------------------------------------------------------------------
(* Bounds of the model *)

MaxSlots == 2          \* request handlers that can be in flight together
MaxArrivals == 2       \* requests received in one behaviour of Spec
MaxNamed == 2          \* session ids that clients make up themselves
MaxClock == 25         \* last hour the clock reaches
MaxExchanges == 11     \* requests received in one behaviour of SpecMemory
MaxLoopRuns == 1       \* requests received in one behaviour of SpecLoop
MaxFallbackRequests == 2 \* requests received in one behaviour of SpecFallback

(* Program constants *)

K == 10                    \* ConversationBufferWindowMemory(k=10)
MAX_AGE_HOURS == 24        \* is_expired(max_age_hours=24)
MAX_ITERATIONS == 8        \* AgentExecutor(max_iterations=8)
MAX_EXECUTION_TIME == 90   \* AgentExecutor(max_execution_time=90), seconds

----------------------------------------------------------------------------
(* Texts *)

KW_suggest == <<"s","u","g","g","e","s","t">>
KW_recommend == <<"r","e","c","o","m","m","e","n","d">>
KW_ideas == <<"i","d","e","a","s">>
KW_where == <<"w","h","e","r","e">>
KW_plan == <<"p","l","a","n">>
KW_itinerary == <<"i","t","i","n","e","r","a","r","y">>
KW_schedule == <<"s","c","h","e","d","u","l","e">>
KW_day == <<"d","a","y">>

W_Where == <<"W","h","e","r","e">>
W_SUGGEST == <<"S","U","G","G","E","S","T">>
W_today == <<"t","o","d","a","y">>
W_Plan == <<"P","l","a","n">>
W_trip == <<"t","r","i","p">>
W_hello == <<"h","e","l","l","o">>
W_pla == <<"p","l","a">>
W_n == <<"n">>

FALLBACK_SUGGESTIONS == <<"*"," ","T","o","k","y","o",","," ","J","a","p","a","n">>
FALLBACK_ITINERARY == <<"D","a","y"," ","1",":">>
FALLBACK_GENERAL == <<"I","'","d"," ","b","e"," ","h","a","p","p","y">>
AGENT_OUTPUT == <<"F","l","y"," ","B","O","M">>
LLM_ERROR == <<"O","l","l","a","m","a"," ","e","r","r","o","r">>
TOOL_ERROR == <<"t","o","o","l"," ","f","a","i","l","e","d">>
STOP_ERROR == <<"u","n","s","u","p","p","o","r","t","e","d"," ","e","a","r","l","y","_","s","t","o","p","p","i","n","g","_","m","e","t","h","o","d">>
STOPPED_OUTPUT == <<"A","g","e","n","t"," ","s","t","o","p","p","e","d">>
TOOL_RESULT == <<"r","e","s","u","l","t">>
SESSION_NOT_FOUND == <<"S","e","s","s","i","o","n"," ","n","o","t"," ","f","o","u","n","d">>
SESSION_DELETED == <<"S","e","s","s","i","o","n"," ","d","e","l","e","t","e","d">>
TOOL_NOT_FOUND == <<"T","o","o","l"," ","n","o","t"," ","f","o","u","n","d">>
EMPTY == << >>

UPPER == <<"A","B","C","D","E","F","G","H","I","J","K","L","M","N","O","P","Q","R","S","T","U","V","W","X","Y","Z">>
LOWER == <<"a","b","c","d","e","f","g","h","i","j","k","l","m","n","o","p","q","r","s","t","u","v","w","x","y","z">>

\* str.lower(), one character
LowerChar(c) ==
    IF \E i \in 1..Len(UPPER) : UPPER[i] = c
    THEN LOWER[CHOOSE i \in 1..Len(UPPER) : UPPER[i] = c]
    ELSE c

\* str.lower()
Lower(s) == [i \in 1..Len(s) |-> LowerChar(s[i])]

\* `word in text` on Python strings: word occurs as a contiguous substring
Contains(text, word) ==
    \E i \in 0..(Len(text) - Len(word)) :
        \A j \in 1..Len(word) : text[i + j] = word[j]

\* any(word in query_lower for word in words)
AnyWordIn(words, text) == \E w \in words : Contains(text, w)

SUGGEST_WORDS == {KW_suggest, KW_recommend, KW_ideas, KW_where}
PLAN_WORDS == {KW_plan, KW_itinerary, KW_schedule, KW_day}

----------------------------------------------------------------------------
(* Responses: what the caller of a route receives *)

NoId == 0
NoObj == 0
FALLBACK_SESSION == 999

\* request names the request a response answers: its arrival number, the
\* query and session id it carried, how the store knew that id, and what the
\* awaited call did
NoRequest ==
    [arrival |-> 0, query |-> EMPTY, session_id |-> NoId, found |-> "none",
     raised |-> EMPTY]

Request(arrival, query, session_id, found, raised) ==
    [arrival |-> arrival, query |-> query, session_id |-> session_id,
     found |-> found, raised |-> raised]

NoResponse ==
    [http |-> 0, status |-> "none", route |-> "none", output |-> EMPTY,
     detail |-> EMPTY, session_id |-> NoId, history |-> << >>,
     request |-> NoRequest]

\* return {...} of a route: HTTP 200 with a body
Ok(route, status, output, sid, history, request) ==
    [http |-> 200, status |-> status, route |-> route, output |-> output,
     detail |-> EMPTY, session_id |-> sid, history |-> history,
     request |-> request]

\* raise HTTPException(status_code=code, detail=detail)
HTTPException(route, code, detail, request) ==
    [http |-> code, status |-> "error", route |-> route, output |-> EMPTY,
     detail |-> detail, session_id |-> NoId, history |-> << >>,
     request |-> request]

\* the canned answer of execute_agent when agent_executor is None
FallbackResponsePlanFirst(query) ==
    LET query_lower == Lower(query) IN
    IF AnyWordIn(PLAN_WORDS, query_lower) THEN FALLBACK_ITINERARY
    ELSE IF AnyWordIn(SUGGEST_WORDS, query_lower) THEN FALLBACK_SUGGESTIONS
    ELSE FALLBACK_GENERAL

FallbackResponse(query) ==
    LET query_lower == Lower(query) IN
    IF AnyWordIn(SUGGEST_WORDS, query_lower) THEN FALLBACK_SUGGESTIONS
    ELSE IF AnyWordIn(PLAN_WORDS, query_lower) THEN FALLBACK_ITINERARY
    ELSE FALLBACK_GENERAL

----------------------------------------------------------------------------
(* ConversationSession *)

\* a Python dict as a function on its key set
EmptyDict == [k \in {} |-> EMPTY]

\* dict.update(other)
DictUpdate(d, other) ==
    [k \in (DOMAIN d) \cup (DOMAIN other) |->
        IF k \in DOMAIN other THEN other[k] ELSE d[k]]

\* del d[key]
DictDel(d, key) == [k \in (DOMAIN d) \ {key} |-> d[k]]

\* ConversationSession.__init__; born is the arrival number of the request
\* that constructs the object and serves as its reference
ConversationSession(session_id, born) ==
    [session_id |-> session_id, born |-> born, created_at |-> now,
     last_activity |-> now, messages |-> << >>, context |-> EmptyDict]

\* ConversationSession.add_message: chat_memory keeps every message, the
\* window k only applies to what load_memory_variables hands to the prompt
add_message(session, role, content, arrival) ==
    [session EXCEPT
        !.messages =
            IF role \in {"user", "assistant"}
            THEN Append(@, [role |-> role, content |-> content, arrival |-> arrival])
            ELSE @,
        !.last_activity = now]

\* ConversationSession.get_messages: role and content of every stored message
get_messages(session) ==
    [i \in 1..Len(session.messages) |->
        [role |-> session.messages[i].role, content |-> session.messages[i].content]]

\* memory.load_memory_variables({})["chat_history"]: the last k exchanges
load_memory_variables(session) ==
    LET n == Len(session.messages) IN
    IF n <= 2 * K THEN session.messages
    ELSE SubSeq(session.messages, n - 2 * K + 1, n)

\* ConversationSession.is_expired, datetime.now() being t
is_expired_at(session, t) == t - session.last_activity > MAX_AGE_HOURS

is_expired(session) == is_expired_at(session, now)


----------------------------------------------------------------------------
(* MCPServer: the session store *)

Slots == 1..MaxSlots
NamedIds == 1..MaxNamed

\* str(uuid.uuid4()): an id no earlier request has seen
uuid4(arrival) == MaxNamed + arrival

\* MCPServer.cleanup_expired_sessions: the store without its expired entries
cleanup_expired_sessionsKeepsAll(store) == store

cleanup_expired_sessions(store) ==
    [sid \in {s \in DOMAIN store : ~is_expired(heap[store[s]])} |-> store[sid]]

\* a session object lives as long as the store or a suspended handler holds it
Prune(h, store, rq) ==
    LET held == {store[sid] : sid \in DOMAIN store}
                \cup {rq[r].obj : r \in {x \in DOMAIN rq : rq[x].pc = "awaiting"}}
    IN [ref \in (DOMAIN h) \cap held |-> h[ref]]

IdleReq ==
    [pc |-> "idle", arrival |-> 0, session_id |-> NoId, obj |-> NoObj,
     query |-> EMPTY, context |-> EmptyDict, found |-> "none"]

\* outcomes of an awaited call (agent_executor.ainvoke, tool.arun)
Finish(output) == [kind |-> "finish", output |-> output, error |-> EMPTY]
Raise(error) == [kind |-> "raise", output |-> EMPTY, error |-> error]

AgentResults == {Finish(AGENT_OUTPUT), Raise(LLM_ERROR)}

\* MCPServer.get_or_create_session: the reference the store holds for the id
\* afterwards, a new one (the arrival number) if the id is not in the store
get_or_create_sessionAnyStored(store, session_id, arrival) ==
    IF store # EmptyDict
    THEN store[CHOOSE sid \in DOMAIN store : TRUE]
    ELSE arrival

get_or_create_session(store, session_id, arrival) ==
    IF session_id \notin DOMAIN store
    THEN arrival
    ELSE store[session_id]

----------------------------------------------------------------------------
(* Routes *)

\* POST /agent/execute up to the await of agent_executor.ainvoke: the fallback
\* answer when no agent is set up, else sweep, get_or_create_session, the user
\* turn and the context merge
ExecuteAgent(r, sid_in, query, ctx) ==
    /\ req[r].pc = "idle"
    /\ arrivals' = arrivals + 1
    /\ LET a == arrivals + 1 IN
       IF agent_executor = "None"
       THEN /\ response' = Ok("agent", "success", FallbackResponse(query),
                              FALLBACK_SESSION, << >>,
                              Request(a, query, sid_in, "none", EMPTY))
            /\ UNCHANGED <<conversation_sessions, heap, req>>
       ELSE LET swept == cleanup_expired_sessions(conversation_sessions)
                session_id == IF sid_in # NoId THEN sid_in ELSE uuid4(a)
                found == IF session_id \notin DOMAIN conversation_sessions THEN "absent"
                         ELSE IF is_expired(heap[conversation_sessions[session_id]])
                         THEN "expired"
                         ELSE "active"
                ref == get_or_create_session(swept, session_id, a)
                session == IF ref \in DOMAIN heap THEN heap[ref]
                           ELSE ConversationSession(session_id, a)
                with_user == add_message(session, "user", query, a)
                merged == IF DOMAIN ctx # {}
                          THEN [with_user EXCEPT !.context = DictUpdate(@, ctx)]
                          ELSE with_user
                store == [sid \in (DOMAIN swept) \cup {session_id} |->
                            IF sid = session_id THEN ref ELSE swept[sid]]
                h == [x \in (DOMAIN heap) \cup {ref} |->
                            IF x = ref THEN merged ELSE heap[x]]
            IN /\ conversation_sessions' = store
               /\ req' = [req EXCEPT ![r] =
                            [pc |-> "awaiting", arrival |-> a,
                             session_id |-> session_id, obj |-> ref,
                             query |-> query, context |-> ctx, found |-> found]]
               /\ heap' = Prune(h, store, req')
               /\ UNCHANGED response
    /\ UNCHANGED <<agent_executor, now, fs, call>>

\* the same with the assistant turn added before the outcome is looked at
AgentReturnAnswersFirst(r, result) ==
    /\ req[r].pc = "awaiting"
    /\ LET session == heap[req[r].obj]
           answered == add_message(session, "assistant", result.output, req[r].arrival)
           request == Request(req[r].arrival, req[r].query, req[r].session_id,
                              req[r].found, result.error)
       IN /\ response' =
               IF result.kind = "finish"
               THEN Ok("agent", "success", result.output, req[r].session_id,
                       get_messages(answered), request)
               ELSE HTTPException("agent", 500, result.error, request)
          /\ req' = [req EXCEPT ![r] = IdleReq]
          /\ heap' = Prune([heap EXCEPT ![req[r].obj] = answered],
                           conversation_sessions, req')
    /\ UNCHANGED <<agent_executor, now, conversation_sessions, arrivals, fs, call>>

\* POST /agent/execute after the await: the assistant turn and the response, or
\* the except clause
AgentReturn(r, result) ==
    /\ req[r].pc = "awaiting"
    /\ LET session == heap[req[r].obj]
           answered == add_message(session, "assistant", result.output, req[r].arrival)
           request == Request(req[r].arrival, req[r].query, req[r].session_id,
                              req[r].found, result.error)
       IN /\ response' =
               IF result.kind = "finish"
               THEN Ok("agent", "success", result.output, req[r].session_id,
                       get_messages(answered), request)
               ELSE HTTPException("agent", 500, result.error, request)
          /\ req' = [req EXCEPT ![r] = IdleReq]
          /\ heap' = Prune(IF result.kind = "finish"
                           THEN [heap EXCEPT ![req[r].obj] = answered]
                           ELSE heap,
                           conversation_sessions, req')
    /\ UNCHANGED <<agent_executor, now, conversation_sessions, arrivals, fs, call>>

\* how the store knows an id when a lookup or delete request names it
Known(session_id) ==
    IF session_id \in DOMAIN conversation_sessions THEN "active" ELSE "absent"

\* GET /conversation/{session_id}
GetConversation(r, session_id) ==
    /\ req[r].pc = "idle"
    /\ arrivals' = arrivals + 1
    /\ LET request == Request(arrivals + 1, EMPTY, session_id, Known(session_id), EMPTY)
       IN response' =
            IF session_id \notin DOMAIN conversation_sessions
            THEN HTTPException("get", 404, SESSION_NOT_FOUND, request)
            ELSE Ok("get", "found", EMPTY, session_id,
                    get_messages(heap[conversation_sessions[session_id]]), request)
    /\ UNCHANGED <<agent_executor, now, conversation_sessions, heap, req, fs, call>>

\* DELETE /conversation/{session_id}
DeleteConversation(r, session_id) ==
    /\ req[r].pc = "idle"
    /\ arrivals' = arrivals + 1
    /\ conversation_sessions' =
            IF session_id \in DOMAIN conversation_sessions
            THEN DictDel(conversation_sessions, session_id)
            ELSE conversation_sessions
    /\ response' = Ok("delete", "success", SESSION_DELETED, NoId, << >>,
                      Request(arrivals + 1, EMPTY, session_id, Known(session_id), EMPTY))
    /\ heap' = Prune(heap, conversation_sessions', req)
    /\ UNCHANGED <<agent_executor, now, req, fs, call>>

\* the tools register_tools put into MCPServer.tools
RegisteredTools == {"flight_search", "currency_conversion"}
ToolNames == RegisteredTools \cup {"no_such_tool"}
ToolOutcomes == {Finish(TOOL_RESULT), Raise(TOOL_ERROR)}

\* POST /invoke_tool; outcome is what tool.arun does
InvokeTool(r, tool_name, outcome) ==
    /\ req[r].pc = "idle"
    /\ arrivals' = arrivals + 1
    /\ response' =
            IF tool_name \notin RegisteredTools
            THEN HTTPException("tool", 404, TOOL_NOT_FOUND,
                               Request(arrivals + 1, EMPTY, NoId, "none", EMPTY))
            ELSE LET request == Request(arrivals + 1, EMPTY, NoId, "none", outcome.error)
                 IN IF outcome.kind = "finish"
                    THEN Ok("tool", "success", outcome.output, NoId, << >>, request)
                    ELSE HTTPException("tool", 500, outcome.error, request)
    /\ UNCHANGED <<agent_executor, now, conversation_sessions, heap, req, fs, call>>

\* time passes; the awaited reasoning loop is cut off after MAX_EXECUTION_TIME
\* seconds, so no handler stays suspended across a whole hour
TickHours == {MAX_AGE_HOURS, MAX_AGE_HOURS + 1}

Tick(d) ==
    /\ now + d <= MaxClock
    /\ \A r \in Slots : req[r].pc # "awaiting"
    /\ now' = now + d
    /\ UNCHANGED <<agent_executor, conversation_sessions, heap, req, arrivals,
                   response, fs, call>>

----------------------------------------------------------------------------
(* The reasoning loop: AgentExecutor(agent, tools, handle_parsing_errors=<str>,
   max_iterations=8, max_execution_time=90, early_stopping_method="generate")
   around an agent built by create_react_agent *)

EARLY_STOPPING_METHOD == "generate"

IdleLoop ==
    [pc |-> "idle", iterations |-> 0, time_elapsed |-> 0, parse_failures |-> 0,
     ended |-> "none", result |-> Raise(EMPTY)]

\* what one call of the model gives: a final answer, a tool call whose tool
\* returns or raises, text that is neither, or a failed call
ModelOutputs == {"final", "action", "action_raises", "unparsable", "llm_error"}

\* seconds one iteration can take
StepSeconds == {5, 40}

\* the condition of the executor's while loop
should_continue(iterations, time_elapsed) ==
    iterations < MAX_ITERATIONS /\ time_elapsed < MAX_EXECUTION_TIME

\* the response of a loop that stopped at a limit: an agent made from a
\* runnable (create_react_agent) knows the method "force" only
return_stopped_response(early_stopping_method) ==
    IF early_stopping_method = "force"
    THEN Finish(STOPPED_OUTPUT)
    ELSE Raise(STOP_ERROR)

\* one iteration of the loop of slot 1
LoopStep(out, secs) ==
    /\ loop.pc = "running"
    /\ req[1].pc = "awaiting"
    /\ loop' =
        IF out = "final"
        THEN [loop EXCEPT !.pc = "returning", !.ended = "final",
                          !.result = Finish(AGENT_OUTPUT)]
        ELSE IF out = "llm_error"
        THEN [loop EXCEPT !.pc = "returning", !.ended = "llm_error",
                          !.result = Raise(LLM_ERROR)]
        ELSE IF out = "action_raises"
        THEN [loop EXCEPT !.pc = "returning", !.ended = "tool_error",
                          !.result = Raise(TOOL_ERROR)]
        ELSE LET iterations == loop.iterations + 1
                 time_elapsed == loop.time_elapsed + secs
                 \* handle_parsing_errors is a string: the failure becomes the
                 \* observation of the step and the loop goes on
                 failures == IF out = "unparsable" THEN loop.parse_failures + 1 ELSE 0
             IN IF should_continue(iterations, time_elapsed)
                THEN [loop EXCEPT !.iterations = iterations,
                                  !.time_elapsed = time_elapsed,
                                  !.parse_failures = failures]
                ELSE [loop EXCEPT !.pc = "returning",
                                  !.iterations = iterations,
                                  !.time_elapsed = time_elapsed,
                                  !.parse_failures = failures,
                                  !.ended = IF iterations >= MAX_ITERATIONS
                                            THEN "iteration_cap" ELSE "deadline",
                                  !.result = return_stopped_response(EARLY_STOPPING_METHOD)]
    /\ UNCHANGED <<agent_executor, now, conversation_sessions, heap, req, arrivals,
                   response, fs, call>>

\* ainvoke of slot 1 returns or raises what the loop ended with
LoopReturn ==
    /\ loop.pc = "returning"
    /\ AgentReturn(1, loop.result)
    /\ loop' = [loop EXCEPT !.pc = "returned"]

----------------------------------------------------------------------------
(* Flight search: tools/travel_tools.py (Amadeus client, fixed fallback) and
   tools/FlightSearchTool.py (RapidAPI, randomised fallback) *)

C_Mumbai == <<"M","u","m","b","a","i">>
C_DELHI == <<"D","E","L","H","I">>
C_London == <<"L","o","n","d","o","n">>
DOMESTIC_ROUTES ==
    {<<"m","u","m","b","a","i">>,
     <<"d","e","l","h","i">>,
     <<"b","a","n","g","a","l","o","r","e">>,
     <<"c","h","e","n","n","a","i">>,
     <<"h","y","d","e","r","a","b","a","d">>,
     <<"p","u","n","e">>}
TT_AIRLINES ==
    <<<<"A","i","r"," ","I","n","d","i","a">>,
      <<"E","m","i","r","a","t","e","s">>,
      <<"B","r","i","t","i","s","h"," ","A","i","r","w","a","y","s">>,
      <<"L","u","f","t","h","a","n","s","a">>,
      <<"S","i","n","g","a","p","o","r","e"," ","A","i","r","l","i","n","e","s">>,
      <<"Q","a","t","a","r"," ","A","i","r","w","a","y","s">>>>
FB_AIRLINES ==
    <<<<"I","n","d","i","G","o">>,
      <<"A","i","r"," ","I","n","d","i","a">>,
      <<"S","p","i","c","e","J","e","t">>,
      <<"V","i","s","t","a","r","a">>,
      <<"G","o","A","i","r">>,
      <<"E","m","i","r","a","t","e","s">>,
      <<"Q","a","t","a","r"," ","A","i","r","w","a","y","s">>,
      <<"L","u","f","t","h","a","n","s","a">>,
      <<"B","r","i","t","i","s","h"," ","A","i","r","w","a","y","s">>>>
FB_PREFIXES == <<<<"6","E">>, <<"A","I">>, <<"S","G">>, <<"U","K">>>>
FB_CLASSES == <<<<"E","c","o","n","o","m","y">>, <<"E","c","o","n","o","m","y">>, <<"P","r","e","m","i","u","m"," ","E","c","o","n","o","m","y">>, <<"B","u","s","i","n","e","s","s">>>>
DIGITS == <<"0","1","2","3","4","5","6","7","8","9">>

\* str.upper(), one character
UpperChar(c) ==
    IF \E i \in 1..Len(LOWER) : LOWER[i] = c
    THEN UPPER[CHOOSE i \in 1..Len(LOWER) : LOWER[i] = c]
    ELSE c

\* str.upper()
Upper(s) == [i \in 1..Len(s) |-> UpperChar(s[i])]

\* str(n) for n >= 0
RECURSIVE Str(_)
Str(n) == IF n < 10 THEN <<DIGITS[n + 1]>> ELSE Str(n \div 10) \o <<DIGITS[(n % 10) + 1]>>

\* f"{n:0<w>d}"
RECURSIVE Pad(_, _)
Pad(n, w) == IF Len(Str(n)) >= w THEN Str(n) ELSE <<"0">> \o Pad(n, w - 1)

\* f"{n:,}"
RECURSIVE Commas(_)
Commas(n) ==
    IF n < 1000 THEN Str(n)
    ELSE Commas(n \div 1000) \o <<",">> \o Pad(n % 1000, 3)

\* datetime values; NoDate is None
NoDate == [year |-> 0, month |-> 0, day |-> 0, hour |-> 0, minute |-> 0]

\* datetime.strftime('%Y-%m-%d')
strftime(d) == Pad(d.year, 4) \o <<"-">> \o Pad(d.month, 2) \o <<"-">> \o Pad(d.day, 2)

\* datetime.isoformat() with second=0, microsecond=0
isoformat(d) ==
    strftime(d) \o <<"T">> \o Pad(d.hour, 2) \o <<":">> \o Pad(d.minute, 2)
    \o <<":","0","0">>

\* datetime.replace(hour=, minute=) raises ValueError outside these ranges
ValidTime(hour, minute) == hour \in 0..23 /\ minute \in 0..59

replace(d, hour, minute) == [d EXCEPT !.hour = hour, !.minute = minute]

BASE_PRICES == <<450, 650, 850, 1200, 1500>>

\* travel_tools.FlightSearchTool._get_fallback_flights, the loop body for
\* index i: whether its datetime.replace calls are all valid
TtTimesValid(i, return_date) ==
    LET departure_hour == 8 + i * 2
        arrival_hour == departure_hour + 6 + i
        return_departure_hour == 10 + i * 2
        return_arrival_hour == return_departure_hour + 6 + i
    IN /\ ValidTime(departure_hour, 0)
       /\ ValidTime(arrival_hour, 30 + i * 15)
       /\ return_date # NoDate
            => /\ ValidTime(return_departure_hour, 0)
               /\ ValidTime(return_arrival_hour, 45 + i * 10)

\* travel_tools.FlightSearchTool._get_fallback_flights, the flight of index i
TtFlight(i, origin, destination, date, return_date) ==
    LET airline == TT_AIRLINES[(i % Len(TT_AIRLINES)) + 1]
        base == BASE_PRICES[(i % Len(BASE_PRICES)) + 1]
        price == IF return_date # NoDate THEN (base * 18) \div 10 ELSE base
        departure_hour == 8 + i * 2
        arrival_hour == departure_hour + 6 + i
        flight_info ==
            [airline |-> airline,
             flight_number |-> Upper(SubSeq(airline, 1, 2)) \o Str(1000 + i),
             departure |-> origin,
             arrival |-> destination,
             departure_time |-> isoformat(replace(date, departure_hour, 0)),
             arrival_time |-> isoformat(replace(date, arrival_hour, 30 + i * 15)),
             price |-> <<"$">> \o Str(price),
             duration |-> Str(6 + i) \o <<"h"," ">> \o Str(30 + i * 15) \o <<"m">>,
             stops |-> i,
             trip_type |-> IF return_date # NoDate THEN "round-trip" ELSE "one-way",
             departure_date |-> strftime(date)]
        return_departure_hour == 10 + i * 2
        return_arrival_hour == return_departure_hour + 6 + i
        return_info ==
            [return_departure_time |->
                isoformat(replace(return_date, return_departure_hour, 0)),
             return_arrival_time |->
                isoformat(replace(return_date, return_arrival_hour, 45 + i * 10)),
             return_duration |-> Str(6 + i) \o <<"h"," ">> \o Str(45 + i * 10) \o <<"m">>,
             return_date |-> strftime(return_date)]
    IN IF return_date # NoDate THEN DictUpdate(flight_info, return_info) ELSE flight_info

\* the values the random module is let to draw
RAND_BASE_HOUR == {6, 22}          \* random.randint(6, 22)
RAND_TENS == {3}                   \* random.randint(0, 5)
RAND_HOUR_DELTA == {8}             \* random.randint(1, 8)
RAND_HOUR_STEP == {4}              \* random.randint(2, 4)
RAND_DOMESTIC_PRICE == {3000, 15000}   \* random.randint(3000, 15000)
RAND_OTHER_PRICE == {25000, 80000}     \* random.randint(25000, 80000)
RAND_VARIATION == {-20, 30}        \* random.randint(-20, 30)
RAND_AIRLINE == {1, 9}             \* random.choice(airlines), by index
RAND_STOPS == <<0, 0, 0, 1>>       \* random.choice([0, 0, 0, 1])
RAND_NUMBER == {100}               \* random.randint(100, 999)
RAND_DURATION == {<<1, 0>>}        \* random.randint(1, 8), random.randint(0, 59)

\* f"{hour:02d}:{tens*10:02d}"
TimeStr(hour, tens) == Pad(hour, 2) \o <<":">> \o Pad(tens * 10, 2)

\* FlightSearchTool._get_fallback_flights (tools/FlightSearchTool.py), one flight
FbFlight(origin, destination, is_domestic, base_price, departure_time, arrival_time, variation, airline, stops, number, duration) ==
    LET final_price == base_price + ((base_price * variation) \div 100) IN
    [airline |-> FB_AIRLINES[airline],
     flight_number |-> FB_PREFIXES[1] \o Str(number),
     price |-> IF is_domestic THEN <<"Rs">> \o Commas(final_price)
               ELSE <<"$">> \o Commas(final_price \div 80),
     departure_time |-> departure_time,
     arrival_time |-> arrival_time,
     duration |-> Str(duration[1]) \o <<"h"," ">> \o Str(duration[2]) \o <<"m">>,
     stops |-> stops,
     departure |-> origin,
     arrival |-> destination,
     booking_class |-> FB_CLASSES[1]]

\* what the provider does when it is called
Providers == {"unavailable", "raises", "empty", "flights"}

\* a parsed offer of the provider
PROVIDER_FLIGHTS ==
    <<[airline |-> TT_AIRLINES[2], price |-> <<"$","9","9">>, stops |-> 0]>>

IdleSearch ==
    [pc |-> "idle", tool |-> "none", provider |-> "none", origin |-> EMPTY,
     destination |-> EMPTY, date |-> NoDate, return_date |-> NoDate,
     attempt |-> 0, i |-> 0, base_hour |-> 0, base_price |-> 0,
     departure_time |-> EMPTY, arrival_time |-> EMPTY,
     flights |-> << >>, outcome |-> "none"]

\* travel_tools.FlightSearchTool.execute up to the return of a provider result
\* or the entry into _get_fallback_flights: use_amadeus False, or
\* _search_with_amadeus and its except clause
TtExecute ==
    /\ fs.pc = "called"
    /\ fs.tool = "travel_tools"
    /\ fs' =
        IF fs.provider \in {"unavailable", "raises"}
        THEN [fs EXCEPT !.pc = "tt_fallback", !.attempt = 1, !.i = 0]
        ELSE [fs EXCEPT !.pc = "done", !.outcome = "list",
                        !.flights = IF fs.provider = "flights"
                                    THEN PROVIDER_FLIGHTS ELSE << >>]
    /\ UNCHANGED <<agent_executor, now, conversation_sessions, heap, req, arrivals,
                   response, loop, call>>

\* FlightSearchTool.execute of tools/FlightSearchTool.py: the fallback without
\* an api_key, after an exception, or when no flights were found
FbExecute ==
    /\ fs.pc = "called"
    /\ fs.tool = "FlightSearchTool"
    /\ fs' =
        IF fs.provider \in {"unavailable", "raises", "empty"}
        THEN [fs EXCEPT !.pc = "fb_fallback_init"]
        ELSE [fs EXCEPT !.pc = "done", !.outcome = "list",
                        !.flights = PROVIDER_FLIGHTS]
    /\ UNCHANGED <<agent_executor, now, conversation_sessions, heap, req, arrivals,
                   response, loop, call>>

\* travel_tools._get_fallback_flights, iteration i of `for i in range(3)`; a
\* ValueError of the first call is caught by execute, which calls it again
TtFallbackStep ==
    /\ fs.pc = "tt_fallback"
    /\ fs' =
        IF fs.i = 3
        THEN [fs EXCEPT !.pc = "done", !.outcome = "list"]
        ELSE IF TtTimesValid(fs.i, fs.return_date)
        THEN [fs EXCEPT !.i = @ + 1,
                        !.flights = Append(@, TtFlight(fs.i, fs.origin, fs.destination,
                                                       fs.date, fs.return_date))]
        ELSE IF fs.attempt = 1
        THEN [fs EXCEPT !.attempt = 2, !.i = 0, !.flights = << >>]
        ELSE [fs EXCEPT !.pc = "done", !.outcome = "raise", !.flights = << >>]
    /\ UNCHANGED <<agent_executor, now, conversation_sessions, heap, req, arrivals,
                   response, loop, call>>

\* FlightSearchTool._get_fallback_flights (tools/FlightSearchTool.py), the draws
\* made before the loop
FbFallbackInit(base_hour, tens, delta, tens2, price) ==
    /\ fs.pc = "fb_fallback_init"
    /\ LET is_domestic == /\ Lower(fs.origin) \in DOMESTIC_ROUTES
                          /\ Lower(fs.destination) \in DOMESTIC_ROUTES
       IN /\ price \in (IF is_domestic THEN RAND_DOMESTIC_PRICE ELSE RAND_OTHER_PRICE)
          /\ fs' = [fs EXCEPT !.pc = "fb_fallback", !.i = 0,
                        !.base_hour = base_hour,
                        !.base_price = price,
                        !.departure_time = TimeStr(base_hour, tens),
                        !.arrival_time = TimeStr((base_hour + delta) % 24, tens2)]
    /\ UNCHANGED <<agent_executor, now, conversation_sessions, heap, req, arrivals,
                   response, loop, call>>

\* the same, iteration i of `for i in range(3)`
FbFallbackStep(variation, airline, stops, number, duration, step, tens, delta, tens2) ==
    /\ fs.pc = "fb_fallback"
    /\ fs' =
        IF fs.i = 3
        THEN [fs EXCEPT !.pc = "done", !.outcome = "list"]
        ELSE LET is_domestic == /\ Lower(fs.origin) \in DOMESTIC_ROUTES
                                /\ Lower(fs.destination) \in DOMESTIC_ROUTES
                 base_hour == (fs.base_hour + step) % 24
             IN [fs EXCEPT
                    !.i = @ + 1,
                    !.flights = Append(@, FbFlight(fs.origin, fs.destination, is_domestic,
                                                   fs.base_price, fs.departure_time,
                                                   fs.arrival_time, variation, airline,
                                                   stops, number, duration)),
                    !.base_hour = base_hour,
                    !.departure_time = TimeStr(base_hour, tens),
                    !.arrival_time = TimeStr((base_hour + delta) % 24, tens2)]
    /\ UNCHANGED <<agent_executor, now, conversation_sessions, heap, req, arrivals,
                   response, loop, call>>

----------------------------------------------------------------------------
(* Specifications *)

Queries == {W_Where, W_hello}
Contexts == {EmptyDict, [budget |-> "low"]}

\* the server before any request, no search or helper call in progress
InitStore ==
    /\ agent_executor = "None"
    /\ now = 0
    /\ conversation_sessions = EmptyDict
    /\ heap = EmptyDict
    /\ req = [r \in Slots |-> IdleReq]
    /\ arrivals = 0
    /\ response = NoResponse
    /\ loop = IdleLoop
    /\ fs = IdleSearch

InitServer ==
    /\ now = 0
    /\ conversation_sessions = EmptyDict
    /\ heap = EmptyDict
    /\ req = [r \in Slots |-> IdleReq]
    /\ arrivals = 0
    /\ response = NoResponse
    /\ loop = IdleLoop
    /\ fs = IdleSearch
    /\ call = IdleCall

\* the server after start-up: setup_agent has made an executor or has not
Init ==
    /\ agent_executor \in {"None", "Ready"}
    /\ InitServer

\* a request is taken by the first free handler
FreeSlot == CHOOSE r \in Slots : req[r].pc = "idle" /\ \A x \in 1..(r - 1) : req[x].pc # "idle"

HasFreeSlot == \E r \in Slots : req[r].pc = "idle"

Next ==
    \/ \E sid \in NamedIds \cup {NoId} \cup DOMAIN conversation_sessions,
          q \in Queries, ctx \in Contexts :
            /\ arrivals < MaxArrivals /\ HasFreeSlot
            /\ ExecuteAgent(FreeSlot, sid, q, ctx) /\ UNCHANGED loop
    \/ \E r \in Slots, result \in AgentResults :
            AgentReturn(r, result) /\ UNCHANGED loop
    \/ \E sid \in NamedIds \cup DOMAIN conversation_sessions :
            /\ arrivals < MaxArrivals /\ HasFreeSlot
            /\ GetConversation(FreeSlot, sid) /\ UNCHANGED loop
    \/ \E sid \in NamedIds \cup DOMAIN conversation_sessions :
            /\ arrivals < MaxArrivals /\ HasFreeSlot
            /\ DeleteConversation(FreeSlot, sid) /\ UNCHANGED loop
    \/ \E t \in ToolNames, o \in ToolOutcomes :
            /\ arrivals < MaxArrivals /\ HasFreeSlot
            /\ InvokeTool(FreeSlot, t, o) /\ UNCHANGED loop
    \/ \E d \in TickHours : Tick(d) /\ UNCHANGED loop

Spec == Init /\ [][Next]_vars


\* one session, one request after the other: the history as it grows
InitMemory ==
    /\ agent_executor = "Ready"
    /\ InitServer

NextMemory ==
    \/ arrivals < MaxExchanges /\ ExecuteAgent(1, 1, W_Where, EmptyDict) /\ UNCHANGED loop
    \/ \E result \in AgentResults :
            AgentReturn(1, result) /\ UNCHANGED loop

SpecMemory == InitMemory /\ [][NextMemory]_vars

\* one request at a time, its reasoning loop iteration by iteration
InitLoop ==
    /\ agent_executor = "Ready"
    /\ InitServer

NextLoop ==
    \/ \E q \in Queries, ctx \in Contexts :
            /\ arrivals < MaxLoopRuns
            /\ ExecuteAgent(1, 1, q, ctx)
            /\ loop' = [IdleLoop EXCEPT !.pc = "running"]
    \/ \E out \in ModelOutputs, secs \in StepSeconds : LoopStep(out, secs)
    \/ LoopReturn

SpecLoop == InitLoop /\ [][NextLoop]_vars

\* the server without a reasoning engine, over queries of one or two words
FallbackWords ==
    {W_Where, W_SUGGEST, KW_recommend, KW_ideas, W_Plan, KW_itinerary,
     KW_schedule, W_today, W_trip, W_hello, W_pla, W_n}

FallbackQueries ==
    {EMPTY} \cup FallbackWords
    \cup {w1 \o sep \o w2 : w1 \in FallbackWords, w2 \in FallbackWords, sep \in {<<" ">>, << >>}}

InitFallback ==
    /\ agent_executor = "None"
    /\ InitServer

NextFallback ==
    \E sid \in {1, NoId}, q \in FallbackQueries :
        arrivals < MaxFallbackRequests /\ ExecuteAgent(1, sid, q, EmptyDict) /\ UNCHANGED loop

SpecFallback == InitFallback /\ [][NextFallback]_vars

\* a flight search for every input, tool and provider behaviour
Origins == {C_Mumbai, C_London}
Destinations == {C_DELHI}
Dates ==
    {[year |-> 2025, month |-> 7, day |-> 15, hour |-> 0, minute |-> 0],
     [year |-> 2025, month |-> 12, day |-> 31, hour |-> 23, minute |-> 59]}
ReturnDates ==
    {NoDate, [year |-> 2026, month |-> 1, day |-> 7, hour |-> 9, minute |-> 5]}

InitFlights ==
    /\ agent_executor = "None"
    /\ now = 0
    /\ conversation_sessions = EmptyDict
    /\ heap = EmptyDict
    /\ req = [r \in Slots |-> IdleReq]
    /\ arrivals = 0
    /\ response = NoResponse
    /\ loop = IdleLoop
    /\ call = IdleCall
    /\ \E tool \in {"travel_tools", "FlightSearchTool"}, provider \in Providers,
          origin \in Origins, destination \in Destinations,
          date \in Dates, return_date \in ReturnDates :
            fs = [IdleSearch EXCEPT !.pc = "called", !.tool = tool,
                    !.provider = provider, !.origin = origin,
                    !.destination = destination, !.date = date,
                    !.return_date = return_date]

NextFlights ==
    \/ TtExecute
    \/ FbExecute
    \/ TtFallbackStep
    \/ \E base_hour \in RAND_BASE_HOUR, tens \in RAND_TENS, delta \in RAND_HOUR_DELTA,
          tens2 \in RAND_TENS, price \in RAND_DOMESTIC_PRICE \cup RAND_OTHER_PRICE :
            FbFallbackInit(base_hour, tens, delta, tens2, price)
    \/ \E variation \in RAND_VARIATION, airline \in RAND_AIRLINE,
          k \in DOMAIN RAND_STOPS, number \in RAND_NUMBER, duration \in RAND_DURATION,
          step \in RAND_HOUR_STEP, tens \in RAND_TENS, delta \in RAND_HOUR_DELTA,
          tens2 \in RAND_TENS :
            FbFallbackStep(variation, airline, RAND_STOPS[k], number, duration, step,
                           tens, delta, tens2)

SpecFlights == InitFlights /\ [][NextFlights]_vars

----------------------------------------------------------------------------
(* Provider calls and their local recovery: the flight_search tool of      *)
(* mcp_server/tools.py, TravelAgent.search_flights / search_hotels and     *)
(* HotelSearchTool.execute of tools/travel_tools.py                        *)

C_New_York == <<"N","e","w"," ","Y","o","r","k">>

\* str.replace(a, b) for one-character a and text b
ReplaceChar(s, a, b) == [i \in 1..Len(s) |-> IF s[i] = a THEN b ELSE s[i]]

\* what the Amadeus endpoint does with one request
AmadeusOutcomes ==
    {"network_error", "status_401", "status_500", "bad_json", "no_data_key",
     "empty", "malformed", "data"}

\* what the RapidAPI hotel endpoints do with one search
RapidApiOutcomes ==
    {"no_api_key", "network_error", "location_status_500", "no_suggestions",
     "no_location_id", "search_status_500", "no_properties", "malformed", "data"}

\* the outcomes that are a failure of the provider or an empty payload
ProviderFailures ==
    {"no_api_key", "network_error", "status_401", "status_500", "bad_json",
     "no_data_key", "location_status_500", "no_suggestions", "no_location_id",
     "search_status_500", "empty", "no_properties", "malformed"}

ERR_REQUEST == "Exception during API request: connection failed"
ERR_REFRESH == "Failed after token refresh: 401 - unauthorized"
ERR_STATUS == "API request failed: 500 - server error"
ERR_JSON == "Exception during API request: Expecting value"
ERR_ATTRIBUTE == "'str' object has no attribute 'get'"
ERR_NO_KEY == "RapidAPI key not available for hotel search"
ERR_TYPE == "hotel_search() got an unexpected keyword argument 'location'"

\* a flight offer of the provider, as the payload carries it: a dict
Offer(n) ==
    [type |-> "dict", id |-> n, total |-> 100 * n, carrier |-> "AI", duration |-> "PT2H"]

\* an entry of a malformed payload: a string where a dict is expected
MALFORMED_OFFER == [type |-> "str"]

\* BaseAmadeusAPITool._make_authenticated_request: the dict it returns;
\* every failure becomes a dict with the key "error"
make_authenticated_request(outcome, n) ==
    CASE outcome = "network_error" -> [error |-> ERR_REQUEST]
      [] outcome = "status_401" -> [error |-> ERR_REFRESH]
      [] outcome = "status_500" -> [error |-> ERR_STATUS]
      [] outcome = "bad_json" -> [error |-> ERR_JSON]
      [] outcome = "no_data_key" -> [meta |-> 0]
      [] outcome = "empty" -> [data |-> << >>]
      [] outcome = "malformed" -> [data |-> <<MALFORMED_OFFER>>]
      [] OTHER -> [data |-> [k \in 1..n |-> Offer(k)]]

\* result.get('data') is truthy
HasData(result) == "data" \in DOMAIN result /\ result.data # << >>

\* what a caller receives; source records the branch that made the value:
\* the provider's payload, a message of the tool, or a synthesized fallback
Returned(source, value) == [kind |-> "return", source |-> source, value |-> value]
Raised(error) == [kind |-> "raise", source |-> "exception", value |-> <<error>>]

\* flights[:5]
FirstFive(flights) == SubSeq(flights, 1, IF Len(flights) < 5 THEN Len(flights) ELSE 5)

UNABLE_TO_SEARCH == "Unable to search flights at this time. Please try again later."
SEARCH_ERROR == "Flight search encountered an error: "

\* the answer text of the flight_search tool, as the parts of its f-strings
flight_search_text(result, origin, destination, num_passengers) ==
    IF HasData(result)
    THEN IF \E k \in 1..Len(FirstFive(result.data)) : result.data[k].type # "dict"
         THEN <<SEARCH_ERROR, ERR_ATTRIBUTE>>
         ELSE <<"Found ", Len(result.data), " flights from ", origin, " to ", destination>>
              \o (IF num_passengers > 1 THEN <<"Showing prices for ", num_passengers>> ELSE << >>)
              \o [k \in 1..Len(FirstFive(result.data)) |-> result.data[k]]
    ELSE <<UNABLE_TO_SEARCH>>

\* TravelAgent.search_flights: the simulated flight of its except clause
SIMULATED_FLIGHTS(origin, destination, date) ==
    <<[date |-> strftime(date), price |-> 800, airline |-> "Global Airways",
       flight_number |-> "GA123", departure |-> origin, arrival |-> destination]>>

\* TravelAgent.search_hotels: the simulated hotel of its except clause
SIMULATED_HOTELS(location) ==
    <<[name |-> "Grand Hotel", rating |-> "4.5", price |-> "$200 per night",
       address |-> <<"123 Main Street, ", location>>,
       amenities |-> <<"Pool", "Spa", "Restaurant", "Gym", "Free WiFi">>]>>

HOTEL_TYPES ==
    <<[type |-> "Budget", price_range |-> <<40, 80>>, suffix |-> <<"I","n","n">>],
      [type |-> "Mid-Range", price_range |-> <<90, 180>>, suffix |-> <<"H","o","t","e","l">>],
      [type |-> "Luxury", price_range |-> <<200, 400>>, suffix |-> <<"R","e","s","o","r","t">>]>>

\* f'{3.5 + i * 0.7:.1f}', in tenths
RatingTenths(i) == 35 + i * 7

\* HotelSearchTool._get_fallback_hotels
get_fallback_hotels(location) ==
    [k \in 1..Len(HOTEL_TYPES) |->
        LET i == k - 1
            hotel_type == HOTEL_TYPES[k]
        IN  [name |-> location \o <<" ">> \o hotel_type.suffix,
             id |-> <<"h","o","t","e","l","_">> \o Str(i + 1) \o <<"_">>
                    \o ReplaceChar(Lower(location), " ", "_"),
             price |-> <<"$">> \o Str(hotel_type.price_range[1] + i * 20)
                       \o <<"/","n","i","g","h","t">>,
             rating |-> Str(RatingTenths(i) \div 10) \o <<".">> \o Str(RatingTenths(i) % 10),
             address |-> <<"D","o","w","n","t","o","w","n"," ">> \o location,
             amenities |-> <<"Free WiFi", "Air Conditioning", "Restaurant",
                             IF i > 0 THEN "Fitness Center" ELSE "",
                             IF i > 1 THEN "Swimming Pool" ELSE "">>]]

\* a property of the hotel provider, as HotelSearchTool.execute lists it
ProviderHotel(n) == [name |-> "Hotel", id |-> n, price |-> "$120", rating |-> "8.1"]

\* the flight_search tool of create_langchain_tools, after its argument checks
flight_search ==
    /\ call.pc = "called"
    /\ call.fn = "flight_search"
    /\ LET result == make_authenticated_request(call.provider, call.n)
       IN  call' = [call EXCEPT !.pc = "done",
                      !.result = Returned(IF HasData(result) /\ \A k \in 1..Len(result.data) :
                                                result.data[k].type = "dict"
                                          THEN "provider" ELSE "message",
                                          flight_search_text(result, call.origin,
                                            call.destination, call.num_passengers))]
    /\ UNCHANGED <<agent_executor, now, conversation_sessions, heap, req, arrivals,
                   response, loop, fs>>

\* TravelAgent.search_flights with the default AmadeusFlightSearchTool
search_flights ==
    /\ call.pc = "called"
    /\ call.fn = "search_flights"
    /\ LET result == make_authenticated_request(call.provider, call.n)
       IN  call' = [call EXCEPT !.pc = "done",
                      !.result = IF HasData(result)
                                 THEN Returned("provider", result.data)
                                 ELSE Returned("provider", << >>)]
    /\ UNCHANGED <<agent_executor, now, conversation_sessions, heap, req, arrivals,
                   response, loop, fs>>

\* TravelAgent.search_hotels with the default HotelSearchTool: hotel_search
\* takes city_code, radius, radius_unit and amenities, so the call with
\* location=, check_in=, check_out=, adults= raises TypeError before any
\* request is made and the except clause answers
search_hotels ==
    /\ call.pc = "called"
    /\ call.fn = "search_hotels"
    /\ call' = [call EXCEPT !.pc = "done", !.error = ERR_TYPE,
                  !.result = Returned("fallback", SIMULATED_HOTELS(call.location))]
    /\ UNCHANGED <<agent_executor, now, conversation_sessions, heap, req, arrivals,
                   response, loop, fs>>

\* HotelSearchTool.execute of tools/travel_tools.py
HotelSearchTool_execute ==
    /\ call.pc = "called"
    /\ call.fn = "HotelSearchTool.execute"
    /\ call' = [call EXCEPT !.pc = "done",
                  !.result =
                    CASE call.provider = "no_api_key" -> Raised(ERR_NO_KEY)
                      [] call.provider = "no_properties" -> Returned("provider", << >>)
                      [] call.provider = "data" ->
                            Returned("provider", [k \in 1..call.n |-> ProviderHotel(k)])
                      [] OTHER -> Returned("fallback", get_fallback_hotels(call.location))]
    /\ UNCHANGED <<agent_executor, now, conversation_sessions, heap, req, arrivals,
                   response, loop, fs>>

\* payload sizes and passenger counts
MaxOffers == 6
MaxPassengers == 2

Locations == {C_Mumbai, C_London, C_New_York}

InitProviders ==
    /\ InitStore
    /\ \/ \E fn \in {"flight_search", "search_flights"}, provider \in AmadeusOutcomes,
             n \in 1..MaxOffers, origin \in Origins, destination \in Destinations,
             date \in Dates, num_passengers \in 1..MaxPassengers :
                call = [pc |-> "called", fn |-> fn, provider |-> provider, n |-> n,
                        origin |-> origin, destination |-> destination,
                        location |-> destination, date |-> date,
                        num_passengers |-> num_passengers,
                        error |-> "", result |-> Returned("none", << >>)]
       \/ \E fn \in {"search_hotels", "HotelSearchTool.execute"},
             provider \in RapidApiOutcomes, n \in 1..MaxOffers, location \in Locations :
                call = [pc |-> "called", fn |-> fn, provider |-> provider, n |-> n,
                        origin |-> EMPTY, destination |-> location,
                        location |-> location, date |-> NoDate, num_passengers |-> 1,
                        error |-> "", result |-> Returned("none", << >>)]

NextProviders ==
    \/ flight_search
    \/ search_flights
    \/ search_hotels
    \/ HotelSearchTool_execute

SpecProviders == InitProviders /\ [][NextProviders]_vars

----------------------------------------------------------------------------
(* Travel suggestions: SmartTravelAgent._validate_suggestion_data          *)
(* (agents/travel_agent.py), ItineraryPlannerTool._validate_suggestions    *)
(* and _get_fallback_suggestions (tools/travel_tools.py), and the demo     *)
(* suggestions of app.py                                                   *)

\* Python values by type; MISSING is a key that the dict does not have
MISSING == [type |-> "missing", v |-> << >>]
NONE == [type |-> "NoneType", v |-> << >>]
PyStr(s) == [type |-> "str", v |-> s]
PyInt(n) == [type |-> "int", v |-> n]
PyList(items) == [type |-> "list", v |-> items]
PyDict(d) == [type |-> "dict", v |-> d]

\* bool(x)
Truthy(x) ==
    CASE x.type \in {"missing", "NoneType"} -> FALSE
      [] x.type = "int" -> x.v # 0
      [] x.type = "dict" -> DOMAIN x.v # {}
      [] OTHER -> Len(x.v) > 0

\* data.get(key, default); data.get(key) is DictGet(data, key, NONE)
DictGet(data, key, default) == IF data[key].type = "missing" THEN default ELSE data[key]

\* x == y on Python values
PyEq(x, y) == x.type = y.type /\ x.v = y.v

\* x[:n]; None[:n] and 5[:n] raise TypeError
Sliceable(x) == x.type \in {"str", "list"}
Slice(x, n) == [x EXCEPT !.v = SubSeq(x.v, 1, IF Len(x.v) < n THEN Len(x.v) ELSE n)]

\* c.isdigit(), ASCII
IsDigit(c) == \E i \in 1..Len(DIGITS) : DIGITS[i] = c

\* ''.join(c for c in s if c.isdigit())
RECURSIVE DigitsOf(_)
DigitsOf(s) ==
    IF s = << >> THEN << >>
    ELSE (IF IsDigit(Head(s)) THEN <<Head(s)>> ELSE << >>) \o DigitsOf(Tail(s))

\* int(s) for a text of ASCII digits
RECURSIVE ParseInt(_)
ParseInt(s) ==
    IF s = << >> THEN 0
    ELSE 10 * ParseInt(SubSeq(s, 1, Len(s) - 1))
         + (CHOOSE i \in 0..9 : DIGITS[i + 1] = s[Len(s)])

\* str(x) of a value stored under "duration"
PyStrOf(x) ==
    CASE x.type = "str" -> x.v
      [] x.type = "int" -> IF x.v < 0 THEN <<"-">> \o Str(0 - x.v) ELSE Str(x.v)
      [] x.type = "NoneType" -> <<"N","O","N","E">>
      [] OTHER -> <<"[","]">>

\* a parse that counts one day too many
parse_durationOffByOne(value, default) ==
    LET digits == DigitsOf(PyStrOf(value))
    IN  IF digits # << >> THEN ParseInt(digits) + 1 ELSE default

\* int(''.join(c for c in str(value) if c.isdigit()) or str(default))
parse_duration(value, default) ==
    LET digits == DigitsOf(PyStrOf(value))
    IN  IF digits # << >> THEN ParseInt(digits) ELSE default

SuggestionKeys ==
    {"destination", "description", "best_time_to_visit", "estimated_budget", "duration",
     "activities", "accommodation_suggestions", "transportation", "local_tips",
     "weather_info", "safety_info"}

AlternativeKeys ==
    {"name", "country", "Description", "activitySuggestions", "accommodations",
     "transportInformation", "localTips"}

\* a dict with none of the keys
NoKeys == [k \in SuggestionKeys \cup AlternativeKeys |-> MISSING]

\* a validated suggestion read again as a raw dict
AsRaw(suggestion) ==
    [k \in SuggestionKeys \cup AlternativeKeys |->
        IF k \in DOMAIN suggestion THEN suggestion[k] ELSE MISSING]

UNKNOWN == PyStr(<<"U","n","k","n","o","w","n">>)
LOCATION_UNKNOWN == PyStr(<<"L","o","c","a","t","i","o","n"," ","U","n","k","n","o","w","n">>)
HOTEL == <<"H","o","t","e","l">>
LOCAL_ROUTE == <<"L","o","c","a","l"," ","r","o","u","t","e">>
LOCAL_ROUTES_AVAILABLE == <<":"," ","L","o","c","a","l"," ","r","o","u","t","e","s"," ","a","v","a","i","l","a","b","l","e">>

AGENT_ACTIVITIES ==
    PyList(<<<<"L","o","c","a","l"," ","e","x","p","l","o","r","a","t","i","o","n">>,
             <<"C","u","l","t","u","r","a","l"," ","a","c","t","i","v","i","t","i","e","s">>,
             <<"F","o","o","d"," ","e","x","p","e","r","i","e","n","c","e","s">>,
             <<"N","a","t","u","r","e"," ","e","x","p","l","o","r","a","t","i","o","n">>,
             <<"L","o","c","a","l"," ","m","a","r","k","e","t","s">>>>)
AGENT_ACCOMMODATIONS ==
    PyList(<<<<"R","e","c","o","m","m","e","n","d","e","d"," ","h","o","t","e","l","s">>,
             <<"L","o","c","a","l"," ","g","u","e","s","t","h","o","u","s","e","s">>,
             <<"B","u","d","g","e","t"," ","o","p","t","i","o","n","s">>>>)
AGENT_TRANSPORTATION ==
    PyList(<<<<"P","u","b","l","i","c"," ","t","r","a","n","s","p","o","r","t","a","t","i","o","n">>,
             <<"W","a","l","k","i","n","g"," ","t","o","u","r","s">>>>)
AGENT_LOCAL_TIPS ==
    PyList(<<<<"R","e","s","e","a","r","c","h"," ","l","o","c","a","l"," ","c","u","s","t","o","m","s">>,
             <<"L","e","a","r","n"," ","b","a","s","i","c"," ","p","h","r","a","s","e","s">>,
             <<"F","o","l","l","o","w"," ","l","o","c","a","l"," ","g","u","i","d","e","l","i","n","e","s">>>>)
AGENT_BEST_TIME == PyStr(<<"C","h","e","c","k"," ","l","o","c","a","l"," ","s","e","a","s","o","n","s">>)
AGENT_BUDGET == PyStr(<<"V","a","r","i","e","s"," ","b","a","s","e","d"," ","o","n"," ","p","r","e","f","e","r","e","n","c","e","s">>)
AGENT_WEATHER == PyStr(<<"C","h","e","c","k"," ","l","o","c","a","l"," ","w","e","a","t","h","e","r"," ","c","o","n","d","i","t","i","o","n","s">>)
AGENT_SAFETY == PyStr(<<"F","o","l","l","o","w"," ","s","t","a","n","d","a","r","d"," ","t","r","a","v","e","l"," ","p","r","e","c","a","u","t","i","o","n","s">>)

\* the result of a validator: the value returned or the exception raised
Valid(value) == [kind |-> "return", value |-> value]
TypeError == [kind |-> "raise", value |-> "TypeError"]

\* x[:n] or default
SliceOr(x, n, default) == IF Truthy(Slice(x, n)) THEN Slice(x, n) ELSE default

\* _validate_suggestion_data: destination
agent_destination(data) ==
    LET destination == DictGet(data, "destination", UNKNOWN)
    IN  IF PyEq(destination, UNKNOWN) /\ Truthy(data["name"])
        THEN PyStr(data["name"].v \o <<",", " ">>
                   \o DictGet(data, "country", LOCATION_UNKNOWN).v)
        ELSE destination

\* _validate_suggestion_data: description
agent_description(data) ==
    LET description == DictGet(data, "description", PyStr(EMPTY))
    IN  IF ~Truthy(description) /\ Truthy(data["Description"])
        THEN data["Description"]
        ELSE description

\* a list field of _validate_suggestion_data before the slice: the value of
\* the key, a text wrapped into a list, or the list read from the alternative key
agent_list(data, key, alternative_key, from_alternative) ==
    LET value == DictGet(data, key, PyList(<< >>))
        wrapped == IF value.type = "str" THEN PyList(<<value.v>>) ELSE value
    IN  IF ~Truthy(wrapped) /\ Truthy(data[alternative_key])
        THEN from_alternative
        ELSE wrapped

\* [item["title"] for item in data["activitySuggestions"].get("options", [])]
\* and the same comprehension over localTips["tips"]
ItemsOf(alternative, inner) ==
    CASE alternative.type = "list" -> alternative
      [] alternative.type = "dict" ->
            IF inner \in DOMAIN alternative.v THEN PyList(alternative.v[inner])
            ELSE PyList(<< >>)

\* [acc.get("name", "Hotel") for acc in data["accommodations"]], or the one
\* name of a dict
NamesOf(accommodations) ==
    CASE accommodations.type = "list" ->
            PyList([i \in 1..Len(accommodations.v) |->
                      IF "name" \in DOMAIN accommodations.v[i]
                      THEN accommodations.v[i].name ELSE HOTEL])
      [] accommodations.type = "dict" ->
            PyList(<<IF "name" \in DOMAIN accommodations.v
                     THEN accommodations.v.name ELSE HOTEL>>)

\* the entries made from transportInformation, a dict of one mode
RoutesOf(current, information) ==
    IF information.type # "dict" THEN current
    ELSE LET info == information.v.info
         IN  IF info.type = "list"
             THEN PyList(current.v \o [i \in 1..Len(info.v) |->
                            information.v.mode \o <<":", " ">>
                            \o (IF "routeName" \in DOMAIN info.v[i]
                                THEN info.v[i].routeName ELSE LOCAL_ROUTE)])
             ELSE PyList(current.v \o <<information.v.mode \o LOCAL_ROUTES_AVAILABLE>>)

\* the four list fields of _validate_suggestion_data before their slices
agent_lists(data) ==
    [activities |->
        agent_list(data, "activities", "activitySuggestions",
            IF data["activitySuggestions"].type \in {"list", "dict"}
            THEN ItemsOf(data["activitySuggestions"], "options")
            ELSE DictGet(data, "activities", PyList(<< >>))),
     accommodation_suggestions |->
        agent_list(data, "accommodation_suggestions", "accommodations",
            IF data["accommodations"].type \in {"list", "dict"}
            THEN NamesOf(data["accommodations"])
            ELSE DictGet(data, "accommodation_suggestions", PyList(<< >>))),
     transportation |->
        agent_list(data, "transportation", "transportInformation",
            IF DictGet(data, "transportation", PyList(<< >>)).type = "list"
            THEN RoutesOf(DictGet(data, "transportation", PyList(<< >>)),
                          data["transportInformation"])
            ELSE DictGet(data, "transportation", PyList(<< >>))),
     local_tips |->
        agent_list(data, "local_tips", "localTips",
            IF data["localTips"].type \in {"list", "dict"}
            THEN ItemsOf(data["localTips"], "tips")
            ELSE DictGet(data, "local_tips", PyList(<< >>)))]

\* SmartTravelAgent._validate_suggestion_data(data, duration)
validate_suggestion_data(data, duration) ==
    LET lists == agent_lists(data)
    IN  IF \E k \in DOMAIN lists : ~Sliceable(lists[k])
        THEN TypeError
        ELSE Valid(
            [destination |-> agent_destination(data),
             description |-> agent_description(data),
             best_time_to_visit |-> DictGet(data, "best_time_to_visit", AGENT_BEST_TIME),
             estimated_budget |-> DictGet(data, "estimated_budget", AGENT_BUDGET),
             duration |-> PyStr(Str(parse_duration(DictGet(data, "duration", PyInt(duration)),
                                                   duration))),
             activities |-> SliceOr(lists.activities, 5, AGENT_ACTIVITIES),
             accommodation_suggestions |->
                SliceOr(lists.accommodation_suggestions, 3, AGENT_ACCOMMODATIONS),
             transportation |-> SliceOr(lists.transportation, 2, AGENT_TRANSPORTATION),
             local_tips |-> SliceOr(lists.local_tips, 3, AGENT_LOCAL_TIPS),
             weather_info |-> DictGet(data, "weather_info", AGENT_WEATHER),
             safety_info |-> DictGet(data, "safety_info", AGENT_SAFETY)])

PLANNER_ACTIVITIES ==
    PyList(<<<<"L","o","c","a","l"," ","s","i","g","h","t","s","e","e","i","n","g">>,
             <<"C","u","l","t","u","r","a","l"," ","e","x","p","e","r","i","e","n","c","e","s">>,
             <<"F","o","o","d"," ","t","a","s","t","i","n","g">>,
             <<"N","a","t","u","r","e"," ","e","x","p","l","o","r","a","t","i","o","n">>,
             <<"L","o","c","a","l"," ","m","a","r","k","e","t","s">>>>)
PLANNER_ACCOMMODATIONS ==
    PyList(<<<<"L","o","c","a","l"," ","h","o","t","e","l">>,
             <<"B","u","d","g","e","t"," ","g","u","e","s","t","h","o","u","s","e">>,
             <<"B","o","u","t","i","q","u","e"," ","h","o","s","t","e","l">>>>)
PLANNER_TRANSPORTATION ==
    PyList(<<<<"P","u","b","l","i","c"," ","t","r","a","n","s","p","o","r","t">>,
             <<"W","a","l","k","i","n","g"," ","t","o","u","r","s">>>>)
PLANNER_LOCAL_TIPS ==
    PyList(<<<<"R","e","s","e","a","r","c","h"," ","l","o","c","a","l"," ","c","u","s","t","o","m","s">>,
             <<"L","e","a","r","n"," ","b","a","s","i","c"," ","p","h","r","a","s","e","s">>,
             <<"F","o","l","l","o","w"," ","l","o","c","a","l"," ","g","u","i","d","e","l","i","n","e","s">>>>)
PLANNER_DESTINATION == PyStr(<<"U","n","k","n","o","w","n"," ","L","o","c","a","t","i","o","n">>)
PLANNER_DESCRIPTION == PyStr(<<"A"," ","g","r","e","a","t"," ","d","e","s","t","i","n","a","t","i","o","n"," ","m","a","t","c","h","i","n","g"," ","y","o","u","r"," ","p","r","e","f","e","r","e","n","c","e","s",".">>)
PLANNER_BEST_TIME == PyStr(<<"Y","e","a","r","-","r","o","u","n","d">>)
PLANNER_BUDGET == PyStr(<<"V","a","r","i","e","s"," ","b","a","s","e","d"," ","o","n"," ","p","r","e","f","e","r","e","n","c","e","s">>)
PLANNER_WEATHER == PyStr(<<"C","h","e","c","k"," ","l","o","c","a","l"," ","w","e","a","t","h","e","r"," ","b","e","f","o","r","e"," ","b","o","o","k","i","n","g">>)
PLANNER_SAFETY == PyStr(<<"F","o","l","l","o","w"," ","s","t","a","n","d","a","r","d"," ","t","r","a","v","e","l"," ","p","r","e","c","a","u","t","i","o","n","s">>)
PLANNER_DURATION == 5

\* the validated_suggestion dict of _validate_suggestions for one dict entry
planner_suggestion(suggestion) ==
    [destination |-> DictGet(suggestion, "destination", PLANNER_DESTINATION),
     description |-> DictGet(suggestion, "description", PLANNER_DESCRIPTION),
     best_time_to_visit |-> DictGet(suggestion, "best_time_to_visit", PLANNER_BEST_TIME),
     estimated_budget |-> DictGet(suggestion, "estimated_budget", PLANNER_BUDGET),
     duration |-> PyStr(Str(parse_duration(
                    DictGet(suggestion, "duration", PyStr(Str(PLANNER_DURATION))),
                    PLANNER_DURATION))),
     activities |-> Slice(DictGet(suggestion, "activities", PLANNER_ACTIVITIES), 5),
     accommodation_suggestions |->
        Slice(DictGet(suggestion, "accommodation_suggestions", PLANNER_ACCOMMODATIONS), 3),
     transportation |->
        Slice(DictGet(suggestion, "transportation", PLANNER_TRANSPORTATION), 2),
     local_tips |-> Slice(DictGet(suggestion, "local_tips", PLANNER_LOCAL_TIPS), 3),
     weather_info |-> DictGet(suggestion, "weather_info", PLANNER_WEATHER),
     safety_info |-> DictGet(suggestion, "safety_info", PLANNER_SAFETY)]

\* the suggestion appended while fewer than 2 are valid; n is len(validated_data) + 1
alternative_suggestion(n) ==
    [destination |-> PyStr(<<"A","l","t","e","r","n","a","t","i","v","e"," ","D","e","s","t","i","n","a","t","i","o","n"," ">> \o Str(n)),
     description |-> PLANNER_DESCRIPTION,
     best_time_to_visit |-> PLANNER_BEST_TIME,
     estimated_budget |-> PyStr(<<"W","i","t","h","i","n"," ","y","o","u","r"," ","s","p","e","c","i","f","i","e","d"," ","b","u","d","g","e","t">>),
     duration |-> PyStr(Str(PLANNER_DURATION)),
     activities |-> PLANNER_ACTIVITIES,
     accommodation_suggestions |-> PLANNER_ACCOMMODATIONS,
     transportation |-> PLANNER_TRANSPORTATION,
     local_tips |-> PLANNER_LOCAL_TIPS,
     weather_info |-> PLANNER_WEATHER,
     safety_info |-> PLANNER_SAFETY]

\* [s for s in suggestions if isinstance(s, dict)]
RECURSIVE Dicts(_)
Dicts(suggestions) ==
    IF suggestions = << >> THEN << >>
    ELSE (IF Head(suggestions).type = "dict" THEN <<Head(suggestions).v>> ELSE << >>)
         \o Dicts(Tail(suggestions))

\* while len(validated_data) < 2: append the alternative
RECURSIVE PadToTwo(_)
PadToTwo(validated_data) ==
    IF Len(validated_data) >= 2 THEN validated_data
    ELSE PadToTwo(Append(validated_data, alternative_suggestion(Len(validated_data) + 1)))

ListKeys == {"activities", "accommodation_suggestions", "transportation", "local_tips"}

\* ItineraryPlannerTool._validate_suggestions(suggestions)
validate_suggestions(suggestions) ==
    LET dicts == Dicts(suggestions)
    IN  IF \E i \in 1..Len(dicts) : \E k \in ListKeys :
                dicts[i][k].type # "missing" /\ ~Sliceable(dicts[i][k])
        THEN TypeError
        ELSE Valid(SubSeq(PadToTwo([i \in 1..Len(dicts) |-> planner_suggestion(dicts[i])]),
                          1, 2))

\* n items of a canned list
Items(prefix, n) == PyList([i \in 1..n |-> prefix \o Str(i)])

\* ItineraryPlannerTool._get_fallback_suggestions(location, duration), with
\* the destination that _extract_destination found
get_fallback_suggestions(destination, duration) ==
    <<[destination |-> PyStr(destination),
       description |-> PyStr(<<"E","x","p","l","o","r","e"," ","t","h","e"," ","v","i","b","r","a","n","t"," ","c","u","l","t","u","r","e"," ","a","n","d"," ","a","t","t","r","a","c","t","i","o","n","s"," ","o","f"," ">> \o destination),
       best_time_to_visit |-> PyStr(<<"C","h","e","c","k"," ","l","o","c","a","l"," ","w","e","a","t","h","e","r"," ","p","a","t","t","e","r","n","s"," ","f","o","r"," ","o","p","t","i","m","a","l"," ","t","i","m","i","n","g">>),
       estimated_budget |-> PyStr(<<"$","5","0","-","1","5","0"," ","p","e","r"," ","d","a","y"," ","d","e","p","e","n","d","i","n","g"," ","o","n"," ","p","r","e","f","e","r","e","n","c","e","s">>),
       duration |-> PyStr(PyStrOf(PyInt(duration))),
       activities |-> Items(<<"a","c","t","i","v","i","t","y"," ">>, 5),
       accommodation_suggestions |-> Items(<<"l","o","d","g","i","n","g"," ">>, 3),
       transportation |-> Items(<<"t","r","a","n","s","p","o","r","t"," ">>, 2),
       local_tips |-> Items(<<"t","i","p"," ">>, 3),
       weather_info |-> PyStr(<<"C","h","e","c","k"," ","c","u","r","r","e","n","t"," ","w","e","a","t","h","e","r"," ","f","o","r","e","c","a","s","t","s"," ","b","e","f","o","r","e"," ","t","r","a","v","e","l","i","n","g">>),
       safety_info |-> PyStr(<<"F","o","l","l","o","w"," ","s","t","a","n","d","a","r","d"," ","t","r","a","v","e","l"," ","s","a","f","e","t","y"," ","p","r","e","c","a","u","t","i","o","n","s">>)],
      [destination |-> PyStr(<<"A","l","t","e","r","n","a","t","i","v","e"," ","d","e","s","t","i","n","a","t","i","o","n","s"," ","i","n"," ">> \o destination),
       description |-> PyStr(<<"D","i","s","c","o","v","e","r"," ","n","e","a","r","b","y"," ","a","t","t","r","a","c","t","i","o","n","s"," ","a","n","d"," ","h","i","d","d","e","n"," ","g","e","m","s"," ","a","r","o","u","n","d"," ">> \o destination),
       best_time_to_visit |-> PyStr(<<"S","i","m","i","l","a","r"," ","c","l","i","m","a","t","e"," ","t","o"," ","m","a","i","n"," ","d","e","s","t","i","n","a","t","i","o","n">>),
       estimated_budget |-> PyStr(<<"$","4","0","-","1","2","0"," ","p","e","r"," ","d","a","y"," ","f","o","r"," ","l","o","c","a","l"," ","e","x","p","e","r","i","e","n","c","e","s">>),
       duration |-> PyStr(Str(IF duration - 1 > 2 THEN duration - 1 ELSE 2)),
       activities |-> Items(<<"n","e","a","r","b","y"," ","a","c","t","i","v","i","t","y"," ">>, 5),
       accommodation_suggestions |-> Items(<<"n","e","a","r","b","y"," ","l","o","d","g","i","n","g"," ">>, 3),
       transportation |-> Items(<<"n","e","a","r","b","y"," ","t","r","a","n","s","p","o","r","t"," ">>, 2),
       local_tips |-> Items(<<"n","e","a","r","b","y"," ","t","i","p"," ">>, 3),
       weather_info |-> PyStr(<<"G","e","n","e","r","a","l","l","y"," ","s","i","m","i","l","a","r"," ","t","o"," ","m","a","i","n"," ","d","e","s","t","i","n","a","t","i","o","n"," ","w","e","a","t","h","e","r">>),
       safety_info |-> PyStr(<<"C","h","e","c","k"," ","l","o","c","a","l"," ","c","o","n","d","i","t","i","o","n","s"," ","a","n","d"," ","t","r","a","v","e","l"," ","a","d","v","i","s","o","r","i","e","s">>)]>>

\* _get_demo_suggestions of app.py: Male with 10 activities, 5 accommodation
\* suggestions, 4 transportation entries and 7 local tips, and Bali with
\* the same counts (visa_info and daily_itinerary are further keys of the first)
get_demo_suggestions ==
    <<[destination |-> PyStr(<<"M","a","l","e",","," ","M","a","l","d","i","v","e","s">>),
       description |-> PyStr(<<"A"," ","t","r","o","p","i","c","a","l"," ","p","a","r","a","d","i","s","e">>),
       best_time_to_visit |-> PyStr(<<"N","o","v","e","m","b","e","r"," ","t","o"," ","A","p","r","i","l"," ","(","d","r","y"," ","s","e","a","s","o","n",")">>),
       estimated_budget |-> PyStr(<<"$","4","0","0","-","8","0","0"," ","p","e","r"," ","d","a","y">>),
       duration |-> PyStr(<<"7","-","9"," ","d","a","y","s">>),
       activities |-> Items(<<"M","a","l","d","i","v","e","s"," ","a","c","t","i","v","i","t","y"," ">>, 10),
       accommodation_suggestions |-> Items(<<"M","a","l","d","i","v","e","s"," ","r","e","s","o","r","t"," ">>, 5),
       transportation |-> Items(<<"M","a","l","d","i","v","e","s"," ","t","r","a","n","s","f","e","r"," ">>, 4),
       local_tips |-> Items(<<"M","a","l","d","i","v","e","s"," ","t","i","p"," ">>, 7),
       weather_info |-> PyStr(<<"T","r","o","p","i","c","a","l"," ","c","l","i","m","a","t","e",","," ","d","r","y"," ","s","e","a","s","o","n"," ","N","o","v","-","A","p","r"," ","i","d","e","a","l"," ","f","o","r"," ","t","r","a","v","e","l">>),
       safety_info |-> PyStr(<<"V","e","r","y"," ","s","a","f","e"," ","d","e","s","t","i","n","a","t","i","o","n",","," ","f","o","l","l","o","w"," ","w","a","t","e","r"," ","s","a","f","e","t","y"," ","g","u","i","d","e","l","i","n","e","s">>)],
      [destination |-> PyStr(<<"B","a","l","i",","," ","I","n","d","o","n","e","s","i","a">>),
       description |-> PyStr(<<"A","n"," ","e","n","c","h","a","n","t","i","n","g"," ","i","s","l","a","n","d">>),
       best_time_to_visit |-> PyStr(<<"A","p","r","i","l"," ","t","o"," ","O","c","t","o","b","e","r"," ","(","d","r","y"," ","s","e","a","s","o","n",")">>),
       estimated_budget |-> PyStr(<<"$","1","0","0","-","3","0","0"," ","p","e","r"," ","d","a","y">>),
       duration |-> PyStr(<<"7","-","1","0"," ","d","a","y","s">>),
       activities |-> Items(<<"B","a","l","i"," ","a","c","t","i","v","i","t","y"," ">>, 10),
       accommodation_suggestions |-> Items(<<"B","a","l","i"," ","r","e","s","o","r","t"," ">>, 5),
       transportation |-> Items(<<"B","a","l","i"," ","t","r","a","n","s","f","e","r"," ">>, 4),
       local_tips |-> Items(<<"B","a","l","i"," ","t","i","p"," ">>, 7),
       weather_info |-> PyStr(<<"T","r","o","p","i","c","a","l"," ","c","l","i","m","a","t","e",","," ","d","r","y"," ","s","e","a","s","o","n"," ","A","p","r","i","l","-","O","c","t","o","b","e","r"," ","i","d","e","a","l">>),
       safety_info |-> PyStr(<<"G","e","n","e","r","a","l","l","y"," ","s","a","f","e",","," ","w","a","t","c","h"," ","f","o","r"," ","t","r","a","f","f","i","c"," ","a","n","d"," ","p","e","t","t","y"," ","t","h","e","f","t">>)]>>

\* the validator under call: it is applied to the input, and once more to
\* its own output read as a raw dict
ValidateSuggestionData ==
    /\ call.pc = "called"
    /\ call.fn = "validate_suggestion_data"
    /\ LET result == validate_suggestion_data(call.input, call.duration)
       IN  call' = [call EXCEPT
                      !.outputs = Append(@, result),
                      !.input = IF result.kind = "return" THEN AsRaw(result.value) ELSE @,
                      !.pc = IF result.kind = "return" /\ Len(call.outputs) = 0
                             THEN "called" ELSE "done"]
    /\ UNCHANGED <<agent_executor, now, conversation_sessions, heap, req, arrivals,
                   response, loop, fs>>

ValidateSuggestions ==
    /\ call.pc = "called"
    /\ call.fn = "validate_suggestions"
    /\ LET result == validate_suggestions(call.input)
       IN  call' = [call EXCEPT
                      !.outputs = Append(@, result),
                      !.input = IF result.kind = "return"
                                THEN [i \in 1..Len(result.value) |->
                                        PyDict(AsRaw(result.value[i]))]
                                ELSE @,
                      !.pc = IF result.kind = "return" /\ Len(call.outputs) = 0
                             THEN "called" ELSE "done"]
    /\ UNCHANGED <<agent_executor, now, conversation_sessions, heap, req, arrivals,
                   response, loop, fs>>

\* get_suggestions_fallback of app.py: the planner's suggestions, or the demo
\* suggestions when anything in its try block raises
GetSuggestionsFallback ==
    /\ call.pc = "called"
    /\ call.fn = "get_suggestions_fallback"
    /\ call' = [call EXCEPT
                  !.pc = "done",
                  !.outputs = <<Valid(IF call.planner = "raises"
                                      THEN get_demo_suggestions
                                      ELSE get_fallback_suggestions(call.destination,
                                                                    call.duration))>>]
    /\ UNCHANGED <<agent_executor, now, conversation_sessions, heap, req, arrivals,
                   response, loop, fs>>

\* length of the longest list a raw suggestion carries
MaxItems == 6

TextValues == {MISSING, NONE, PyStr(EMPTY), PyStr(<<"s","o","m","e"," ","t","e","x","t">>)}

DurationValues ==
    {MISSING, NONE, PyInt(0), PyInt(3), PyInt(0 - 3), PyStr(<<"7"," ","d","a","y","s">>), PyStr(<<"a"," ","w","e","e","k">>),
     PyStr(<<"0"," ","d","a","y","s">>), PyStr(<<"7","-","9"," ","d","a","y","s">>), PyStr(<<"2",".","5">>), PyStr(EMPTY)}

ListValues ==
    {MISSING, NONE, PyList(<< >>), PyStr(<<"h","i","k","i","n","g"," ","t","o","u","r","s">>)}
    \cup {Items(<<"i","t","e","m"," ">>, n) : n \in 1..MaxItems}

\* a suggestion as the model is asked to write it
WellFormed ==
    [NoKeys EXCEPT
        !["destination"] = PyStr(<<"G","o","a",","," ","I","n","d","i","a">>),
        !["description"] = PyStr(<<"B","e","a","c","h","e","s">>),
        !["best_time_to_visit"] = PyStr(<<"N","o","v","e","m","b","e","r">>),
        !["estimated_budget"] = PyStr(<<"$","1","0","0"," ","p","e","r"," ","d","a","y">>),
        !["duration"] = PyStr(<<"5">>),
        !["activities"] = Items(<<"i","t","e","m"," ">>, 5),
        !["accommodation_suggestions"] = Items(<<"i","t","e","m"," ">>, 3),
        !["transportation"] = Items(<<"i","t","e","m"," ">>, 2),
        !["local_tips"] = Items(<<"i","t","e","m"," ">>, 3),
        !["weather_info"] = PyStr(<<"W","a","r","m">>),
        !["safety_info"] = PyStr(<<"S","a","f","e">>)]

RawNames ==
    {[WellFormed EXCEPT !["destination"] = d, !["name"] = n, !["country"] = c,
                        !["description"] = s, !["Description"] = t] :
        d \in {MISSING, UNKNOWN, PyStr(<<"G","o","a">>)}, n \in {MISSING, PyStr(<<"P","a","r","i","s">>)},
        c \in {MISSING, PyStr(<<"F","r","a","n","c","e">>)}, s \in TextValues,
        t \in {MISSING, PyStr(<<"O","t","h","e","r"," ","t","e","x","t">>)}}

RawInfos ==
    {[WellFormed EXCEPT !["best_time_to_visit"] = b, !["estimated_budget"] = e,
                        !["weather_info"] = w, !["safety_info"] = s] :
        b \in TextValues, e \in TextValues, w \in TextValues, s \in TextValues}

RawDurations == {[WellFormed EXCEPT !["duration"] = d] : d \in DurationValues}

ACTIVITY_SUGGESTIONS ==
    {MISSING, Items(<<"s","u","g","g","e","s","t","e","d"," ">>, MaxItems + 1),
     PyDict([options |-> Items(<<"t","i","t","l","e"," ">>, 2).v])}

ACCOMMODATIONS ==
    {MISSING, PyList(<<[name |-> <<"R","i","t","z">>], [stars |-> 4]>>), PyDict([name |-> <<"R","i","t","z">>])}

TRANSPORT_INFORMATION ==
    {MISSING,
     PyDict([mode |-> <<"b","u","s">>, info |-> PyList(<<[routeName |-> <<"R","1">>], [fare |-> 2], [routeName |-> <<"R","3">>]>>)]),
     PyDict([mode |-> <<"m","e","t","r","o">>, info |-> PyStr(<<"f","r","e","q","u","e","n","t">>)])}

RawLists ==
    {[WellFormed EXCEPT !["activities"] = a, !["activitySuggestions"] = as,
                        !["accommodation_suggestions"] = c, !["accommodations"] = cs,
                        !["transportation"] = t, !["transportInformation"] = ts,
                        !["local_tips"] = l[1], !["localTips"] = l[2]] :
        a \in ListValues, as \in ACTIVITY_SUGGESTIONS,
        c \in {MISSING, Items(<<"i","t","e","m"," ">>, MaxItems)}, cs \in ACCOMMODATIONS,
        t \in {MISSING, PyList(<< >>), Items(<<"i","t","e","m"," ">>, 3)}, ts \in TRANSPORT_INFORMATION,
        l \in {<<MISSING, MISSING>>, <<PyList(<< >>), Items(<<"h","i","n","t"," ">>, 4)>>,
               <<NONE, PyDict([tips |-> Items(<<"h","i","n","t"," ">>, 4).v])>>,
               <<Items(<<"i","t","e","m"," ">>, 4), MISSING>>}}

RawSuggestions == RawNames \cup RawInfos \cup RawDurations \cup RawLists

\* the raw suggestions that only use the keys the planner reads
PlannerRaws ==
    {r \in RawSuggestions : \A k \in AlternativeKeys : r[k].type = "missing"}

\* the lists handed to _validate_suggestions
SuggestionLists ==
    {<< >>, <<PyStr(<<"n","o","t"," ","a"," ","d","i","c","t">>)>>}
    \cup {<<PyDict(r)>> : r \in PlannerRaws}
    \cup {<<PyDict(r), PyDict(WellFormed)>> : r \in PlannerRaws}
    \cup {<<PyStr(<<"n","o","t"," ","a"," ","d","i","c","t">>), PyDict(WellFormed), PyDict(r), PyDict(WellFormed)>> :
            r \in PlannerRaws}

CallerDurations == {5, 7}

InitSuggestions ==
    /\ InitStore
    /\ \/ \E data \in RawSuggestions, duration \in CallerDurations :
            call = [pc |-> "called", fn |-> "validate_suggestion_data", input |-> data,
                    raw |-> data, duration |-> duration, planner |-> "none",
                    destination |-> EMPTY, outputs |-> << >>]
       \/ \E suggestions \in SuggestionLists :
            call = [pc |-> "called", fn |-> "validate_suggestions", input |-> suggestions,
                    raw |-> suggestions, duration |-> 0, planner |-> "none",
                    destination |-> EMPTY, outputs |-> << >>]
       \/ \E planner \in {"fallback", "raises"}, destination \in Locations,
             duration \in {1, 2, 3, 7} :
            call = [pc |-> "called", fn |-> "get_suggestions_fallback", input |-> << >>,
                    raw |-> << >>, duration |-> duration, planner |-> planner,
                    destination |-> destination, outputs |-> << >>]

NextSuggestions ==
    \/ ValidateSuggestionData
    \/ ValidateSuggestions
    \/ GetSuggestionsFallback

SpecSuggestions == InitSuggestions /\ [][NextSuggestions]_vars

----------------------------------------------------------------------------
(* Currency conversion: CurrencyTool.execute of tools/CurrencyTool_new.py, *)
(* tools/CurrencyTool_fixed.py and tools/travel_tools.py.  Amounts are in  *)
(* hundredths and rates in ten-thousandths; round(rate, 4) and             *)
(* round(rate, 6) leave such a rate as it is.                              *)

RATE_ONE == 10000

\* self.fallback_rates of CurrencyTool_fixed.py
FIXED_FALLBACK_RATES ==
    (<<<<"U","S","D">>, <<"E","U","R">>>> :> 8500) @@
    (<<<<"E","U","R">>, <<"U","S","D">>>> :> 11800) @@
    (<<<<"U","S","D">>, <<"G","B","P">>>> :> 7300) @@
    (<<<<"G","B","P">>, <<"U","S","D">>>> :> 13700) @@
    (<<<<"U","S","D">>, <<"J","P","Y">>>> :> 1100000) @@
    (<<<<"J","P","Y">>, <<"U","S","D">>>> :> 91) @@
    (<<<<"U","S","D">>, <<"I","N","R">>>> :> 750000) @@
    (<<<<"I","N","R">>, <<"U","S","D">>>> :> 130) @@
    (<<<<"E","U","R">>, <<"G","B","P">>>> :> 8600) @@
    (<<<<"G","B","P">>, <<"E","U","R">>>> :> 11600) @@
    (<<<<"U","S","D">>, <<"C","A","D">>>> :> 12500) @@
    (<<<<"C","A","D">>, <<"U","S","D">>>> :> 8000) @@
    (<<<<"U","S","D">>, <<"A","U","D">>>> :> 13500) @@
    (<<<<"A","U","D">>, <<"U","S","D">>>> :> 7400)

\* self.fallback_rates of CurrencyTool_new.py
NEW_FALLBACK_RATES ==
    (<<<<"U","S","D">>, <<"E","U","R">>>> :> 8500) @@
    (<<<<"E","U","R">>, <<"U","S","D">>>> :> 11800) @@
    (<<<<"U","S","D">>, <<"G","B","P">>>> :> 7300) @@
    (<<<<"G","B","P">>, <<"U","S","D">>>> :> 13700) @@
    (<<<<"U","S","D">>, <<"J","P","Y">>>> :> 1100000) @@
    (<<<<"J","P","Y">>, <<"U","S","D">>>> :> 91) @@
    (<<<<"U","S","D">>, <<"I","N","R">>>> :> 750000) @@
    (<<<<"I","N","R">>, <<"U","S","D">>>> :> 130) @@
    (<<<<"E","U","R">>, <<"G","B","P">>>> :> 8600) @@
    (<<<<"G","B","P">>, <<"E","U","R">>>> :> 11600) @@
    (<<<<"U","S","D">>, <<"C","A","D">>>> :> 12500) @@
    (<<<<"C","A","D">>, <<"U","S","D">>>> :> 8000) @@
    (<<<<"U","S","D">>, <<"A","U","D">>>> :> 13500) @@
    (<<<<"A","U","D">>, <<"U","S","D">>>> :> 7400) @@
    (<<<<"U","S","D">>, <<"C","H","F">>>> :> 9200) @@
    (<<<<"C","H","F">>, <<"U","S","D">>>> :> 10900) @@
    (<<<<"U","S","D">>, <<"C","N","Y">>>> :> 64500) @@
    (<<<<"C","N","Y">>, <<"U","S","D">>>> :> 1550)

\* round(n / d) to the nearest whole, ties to even, for n >= 0 and d > 0
RoundDiv(n, d) ==
    LET q == n \div d
        r == n % d
    IN  IF 2 * r > d \/ (2 * r = d /\ q % 2 = 1) THEN q + 1 ELSE q

\* the rate of the fallback table, of its reverse entry, or 1.0
fallback_rate(rates, from_currency, to_currency) ==
    LET rate_key == <<Upper(from_currency), Upper(to_currency)>>
        reverse_key == <<Upper(to_currency), Upper(from_currency)>>
    IN  IF rate_key \in DOMAIN rates THEN rates[rate_key]
        ELSE IF reverse_key \in DOMAIN rates
        THEN RoundDiv(RATE_ONE * RATE_ONE, rates[reverse_key])
        ELSE RATE_ONE

\* round(amount * rate, 2), the amount may be negative
Converted(amount, rate) ==
    IF amount >= 0 THEN RoundDiv(amount * rate, RATE_ONE)
    ELSE 0 - RoundDiv((0 - amount) * rate, RATE_ONE)

\* round(amount * (1.0 / rate), 2)
ConvertedBack(amount, rate) ==
    IF amount >= 0 THEN RoundDiv(amount * RATE_ONE, rate)
    ELSE 0 - RoundDiv((0 - amount) * RATE_ONE, rate)

\* the dict a conversion returns, with the sources it consulted on the way
Conversion(amount, converted, rate, from, to, source, consulted) ==
    [status |-> "success", original_amount |-> amount, converted_amount |-> converted,
     rate |-> rate, from |-> from, to |-> to, source |-> source, consulted |-> consulted]

\* the conversion through the fallback table
fallback_conversion(rates, amount, from_currency, to_currency, consulted) ==
    LET rate_key == <<Upper(from_currency), Upper(to_currency)>>
        reverse_key == <<Upper(to_currency), Upper(from_currency)>>
        rate == fallback_rate(rates, from_currency, to_currency)
    IN  Conversion(amount,
                   IF rate_key \notin DOMAIN rates /\ reverse_key \in DOMAIN rates
                   THEN ConvertedBack(amount, rates[reverse_key])
                   ELSE Converted(amount, rate),
                   rate, Upper(from_currency), Upper(to_currency), "fallback_rates",
                   consulted \cup {"fallback_rates"})

\* CurrencyTool.execute of CurrencyTool_new.py; live is the rate the RapidAPI
\* converter answers with, or 0 when the request fails
new_execute(amount, from_currency, to_currency, live) ==
    IF Upper(from_currency) = Upper(to_currency)
    THEN Conversion(amount, amount, RATE_ONE, Upper(from_currency), Upper(to_currency),
                    "same_currency", {})
    ELSE IF live # 0
    THEN Conversion(amount, Converted(amount, live), live,
                    Upper(from_currency), Upper(to_currency), "rapidapi_live", {"live"})
    ELSE fallback_conversion(NEW_FALLBACK_RATES, amount, from_currency, to_currency,
                             {"live"})

\* CurrencyTool.execute of CurrencyTool_fixed.py; converter tells whether
\* the currency_converter library could be loaded
fixed_execute(amount, from_currency, to_currency, converter, live) ==
    IF Upper(from_currency) = Upper(to_currency)
    THEN Conversion(amount, amount, RATE_ONE, Upper(from_currency), Upper(to_currency),
                    "none", {})
    ELSE IF converter /\ live # 0
    THEN Conversion(amount, Converted(amount, live), live,
                    Upper(from_currency), Upper(to_currency), "currency_converter",
                    {"live"})
    ELSE fallback_conversion(FIXED_FALLBACK_RATES, amount, from_currency, to_currency,
                             IF converter THEN {"live"} ELSE {})

\* CurrencyTool.execute of travel_tools.py: it asks forex-python's
\* CurrencyRates for the rate and for the converted amount, and does not catch
\* what they raise.  CurrencyRates answers 1.0 and the amount itself when the
\* two codes are the same string, and asks its rates service otherwise.
forex_execute(amount, from_currency, to_currency, live) ==
    IF from_currency = to_currency
    THEN Conversion(amount, amount, RATE_ONE, from_currency, to_currency, "none",
                    {"CurrencyRates"})
    ELSE IF live # 0
    THEN Conversion(amount, Converted(amount, live), live, from_currency, to_currency,
                    "none", {"CurrencyRates", "live"})
    ELSE [status |-> "raise", error |-> "RatesNotAvailableError",
          consulted |-> {"CurrencyRates", "live"}]

\* one conversion by the tool under call
CurrencyExecute ==
    /\ call.pc = "called"
    /\ call.fn \in {"CurrencyTool_new", "CurrencyTool_fixed", "travel_tools.CurrencyTool"}
    /\ call' = [call EXCEPT
                  !.pc = "done",
                  !.result =
                    CASE call.fn = "CurrencyTool_new" ->
                            new_execute(call.amount, call.from_currency, call.to_currency,
                                        call.live)
                      [] call.fn = "CurrencyTool_fixed" ->
                            fixed_execute(call.amount, call.from_currency,
                                          call.to_currency, call.converter, call.live)
                      [] OTHER ->
                            forex_execute(call.amount, call.from_currency,
                                          call.to_currency, call.live)]
    /\ UNCHANGED <<agent_executor, now, conversation_sessions, heap, req, arrivals,
                   response, loop, fs>>

\* the largest amount converted, in hundredths
MaxAmount == 3

CurrencyCodes == {<<"U","S","D">>, <<"u","s","d">>, <<"U","s","d">>, <<"E","U","R">>, <<"e","u","r">>, <<"J","P","Y">>, <<"X","Y","Z">>}
Amounts == (0 - 1)..MaxAmount \cup {250, 999}
LiveRates == {0, 8500, 12345}

InitCurrency ==
    /\ InitStore
    /\ \E fn \in {"CurrencyTool_new", "CurrencyTool_fixed", "travel_tools.CurrencyTool"},
          amount \in Amounts, from_currency \in CurrencyCodes,
          to_currency \in CurrencyCodes, converter \in BOOLEAN, live \in LiveRates :
            /\ (fn # "CurrencyTool_fixed") => converter
            /\ call = [pc |-> "called", fn |-> fn, amount |-> amount,
                       from_currency |-> from_currency, to_currency |-> to_currency,
                       converter |-> converter, live |-> live,
                       result |-> [status |-> "none"]]

NextCurrency == CurrencyExecute

SpecCurrency == InitCurrency /\ [][NextCurrency]_vars

----------------------------------------------------------------------------
(* Request classification: detect_request_type of app.py.                  *)

comprehensive_keywords ==
    {<<"c","u","r","a","t","e">>,
     <<"e","x","p","e","r","i","e","n","c","e">>,
     <<"a","c","t","i","v","i","t","i","e","s">>,
     <<"p","l","a","c","e","s"," ","t","o"," ","v","i","s","i","t">>,
     <<"t","h","i","n","g","s"," ","t","o"," ","d","o">>,
     <<"r","o","m","a","n","t","i","c"," ","e","x","p","e","r","i","e","n","c","e">>,
     <<"i","s","l","a","n","d"," ","e","s","c","a","p","e">>,
     <<"d","a","y"," ","b","y"," ","d","a","y">>,
     <<"i","t","i","n","e","r","a","r","y">>,
     <<"r","e","c","o","m","m","e","n","d"," ","r","e","s","o","r","t","s">>,
     <<"r","e","c","o","m","m","e","n","d"," ","h","o","t","e","l","s">>,
     <<"a","t","t","r","a","c","t","i","o","n","s">>,
     <<"s","i","g","h","t","s","e","e","i","n","g">>,
     <<"w","h","a","t"," ","t","o"," ","d","o">>,
     <<"w","h","e","r","e"," ","t","o"," ","g","o">>,
     <<"t","r","a","v","e","l"," ","g","u","i","d","e">>,
     <<"c","o","m","p","l","e","t","e"," ","d","e","t","a","i","l","s">>,
     <<"d","a","y","-","b","y","-","d","a","y">>,
     <<"p","e","r","s","o","n","a","l","i","z","e","d"," ","t","i","p","s">>,
     <<"u","n","f","o","r","g","e","t","t","a","b","l","e">>,
     <<"h","o","n","e","y","m","o","o","n">>}

pure_flight_keywords ==
    {<<"s","e","a","r","c","h"," ","f","l","i","g","h","t","s"," ","o","n","l","y">>,
     <<"f","i","n","d"," ","f","l","i","g","h","t","s"," ","o","n","l","y">>,
     <<"f","l","i","g","h","t"," ","p","r","i","c","e","s"," ","o","n","l","y">>,
     <<"c","o","m","p","a","r","e"," ","f","l","i","g","h","t","s">>,
     <<"c","h","e","a","p","e","s","t"," ","f","l","i","g","h","t","s">>,
     <<"f","l","i","g","h","t"," ","d","e","a","l","s"," ","o","n","l","y">>}

itinerary_keywords ==
    {<<"c","r","e","a","t","e"," ","i","t","i","n","e","r","a","r","y">>,
     <<"m","a","k","e"," ","i","t","i","n","e","r","a","r","y">>,
     <<"d","e","t","a","i","l","e","d"," ","i","t","i","n","e","r","a","r","y">>,
     <<"t","r","a","v","e","l"," ","p","l","a","n">>,
     <<"s","c","h","e","d","u","l","e">>,
     <<"d","a","y"," ","1">>,
     <<"d","a","y"," ","2">>,
     <<"d","a","y"," ","3">>,
     <<"m","o","r","n","i","n","g">>,
     <<"a","f","t","e","r","n","o","o","n">>,
     <<"e","v","e","n","i","n","g">>}

flight_words ==
    {<<"f","l","i","g","h","t">>,
     <<"f","l","i","g","h","t","s">>,
     <<"r","o","u","n","d","-","t","r","i","p">>,
     <<"r","o","u","n","d"," ","t","r","i","p">>}

travel_content_words ==
    {<<"r","e","c","o","m","m","e","n","d">>,
     <<"s","u","g","g","e","s","t">>,
     <<"e","x","p","e","r","i","e","n","c","e">>,
     <<"a","c","t","i","v","i","t","i","e","s">>,
     <<"p","l","a","c","e","s">>,
     <<"r","e","s","o","r","t">>,
     <<"h","o","t","e","l">>}

\* sum(1 for keyword in keywords if keyword in input_lower)
KeywordCount(keywords, input_lower) ==
    Cardinality({keyword \in keywords : Contains(input_lower, keyword)})

\* any(word in input_lower for word in words)
AnyWord(words, input_lower) == \E word \in words : Contains(input_lower, word)

\* the same cascade with the itinerary keywords tried before the pure flight ones
detect_request_typeItineraryFirst(user_input) ==
    LET input_lower == Lower(user_input)
        has_flight_words == AnyWord(flight_words, input_lower)
        has_travel_content == AnyWord(travel_content_words, input_lower)
    IN  IF KeywordCount(comprehensive_keywords, input_lower) >= 2 THEN "suggestions"
        ELSE IF AnyWord(itinerary_keywords, input_lower) THEN "itinerary"
        ELSE IF AnyWord(pure_flight_keywords, input_lower) THEN "flights"
        ELSE IF has_flight_words /\ has_travel_content THEN "suggestions"
        ELSE IF has_flight_words /\ ~has_travel_content THEN "flights"
        ELSE "suggestions"

detect_request_type(user_input) ==
    LET input_lower == Lower(user_input)
        comprehensive_count == KeywordCount(comprehensive_keywords, input_lower)
        has_flight_words == AnyWord(flight_words, input_lower)
        has_travel_content == AnyWord(travel_content_words, input_lower)
    IN  IF comprehensive_count >= 2 THEN "suggestions"
        ELSE IF AnyWord(pure_flight_keywords, input_lower) THEN "flights"
        ELSE IF AnyWord(itinerary_keywords, input_lower) THEN "itinerary"
        ELSE IF has_flight_words /\ has_travel_content THEN "suggestions"
        ELSE IF has_flight_words /\ ~has_travel_content THEN "flights"
        ELSE "suggestions"

\* one classification of the text the user typed
DetectRequestType ==
    /\ call.pc = "called"
    /\ call.fn = "detect_request_type"
    /\ call' = [call EXCEPT !.pc = "done",
                            !.result = detect_request_type(call.user_input)]
    /\ UNCHANGED <<agent_executor, now, conversation_sessions, heap, req, arrivals,
                   response, loop, fs>>

\* the most phrases one typed request is put together from
MaxPhrases == 2

Phrases ==
    {<<"h","o","n","e","y","m","o","o","n">>,
     <<"a","t","t","r","a","c","t","i","o","n","s">>,
     <<"R","o","m","a","n","t","i","c"," ","E","x","p","e","r","i","e","n","c","e">>,
     <<"i","t","i","n","e","r","a","r","y">>,
     <<"C","r","e","a","t","e"," ","I","t","i","n","e","r","a","r","y">>,
     <<"c","o","m","p","a","r","e"," ","f","l","i","g","h","t","s">>,
     <<"m","o","r","n","i","n","g">>,
     <<"F","l","i","g","h","t","s">>,
     <<"r","o","u","n","d"," ","t","r","i","p">>,
     <<"h","o","t","e","l">>,
     <<"r","e","c","o","m","m","e","n","d"," ","h","o","t","e","l","s">>,
     <<"P","a","r","i","s">>,
     <<"s","u","g","g","e","s","t">>}

\* the phrases joined by single blanks
RECURSIVE JoinWords(_)
JoinWords(words) ==
    IF Len(words) = 0 THEN <<>>
    ELSE IF Len(words) = 1 THEN words[1]
    ELSE words[1] \o <<" ">> \o JoinWords(Tail(words))

UserInputs ==
    {JoinWords(words) : words \in UNION {[1..n -> Phrases] : n \in 0..MaxPhrases}}

InitDetect ==
    /\ InitStore
    /\ \E user_input \in UserInputs :
          call = [pc |-> "called", fn |-> "detect_request_type",
                  user_input |-> user_input, result |-> "None"]

NextDetect == DetectRequestType

SpecDetect == InitDetect /\ [][NextDetect]_vars

----------------------------------------------------------------------------
(* Slot extraction: extract_origin_destination and extract_travel_dates of *)
(* app.py, parse_flight_query of mcp_server/tools.py.  The regular         *)
(* expressions are matched as the re module matches them: leftmost start,  *)
(* greedy parts longest first.                                             *)

\* the dict iata_to_city
iata_to_city ==
    (<<"d","m","m">> :> <<"D","a","m","m","a","m">>) @@
    (<<"s","z","x">> :> <<"S","h","e","n","z","h","e","n">>) @@
    (<<"b","o","m">> :> <<"M","u","m","b","a","i">>) @@
    (<<"d","e","l">> :> <<"D","e","l","h","i">>) @@
    (<<"b","l","r">> :> <<"B","a","n","g","a","l","o","r","e">>) @@
    (<<"m","a","a">> :> <<"C","h","e","n","n","a","i">>) @@
    (<<"h","y","d">> :> <<"H","y","d","e","r","a","b","a","d">>) @@
    (<<"c","c","u">> :> <<"K","o","l","k","a","t","a">>) @@
    (<<"l","h","r">> :> <<"L","o","n","d","o","n">>) @@
    (<<"c","d","g">> :> <<"P","a","r","i","s">>) @@
    (<<"n","r","t">> :> <<"T","o","k","y","o">>) @@
    (<<"j","f","k">> :> <<"N","e","w"," ","Y","o","r","k">>) @@
    (<<"l","g","a">> :> <<"N","e","w"," ","Y","o","r","k">>) @@
    (<<"e","w","r">> :> <<"N","e","w"," ","Y","o","r","k">>) @@
    (<<"d","x","b">> :> <<"D","u","b","a","i">>) @@
    (<<"s","i","n">> :> <<"S","i","n","g","a","p","o","r","e">>) @@
    (<<"b","k","k">> :> <<"B","a","n","g","k","o","k">>) @@
    (<<"d","p","s">> :> <<"B","a","l","i">>) @@
    (<<"s","f","o">> :> <<"S","a","n"," ","F","r","a","n","c","i","s","c","o">>) @@
    (<<"l","a","x">> :> <<"L","o","s"," ","A","n","g","e","l","e","s">>) @@
    (<<"o","r","d">> :> <<"C","h","i","c","a","g","o">>) @@
    (<<"s","y","d">> :> <<"S","y","d","n","e","y">>) @@
    (<<"m","e","l">> :> <<"M","e","l","b","o","u","r","n","e">>) @@
    (<<"y","y","z">> :> <<"T","o","r","o","n","t","o">>) @@
    (<<"y","v","r">> :> <<"V","a","n","c","o","u","v","e","r">>) @@
    (<<"p","v","g">> :> <<"S","h","a","n","g","h","a","i">>) @@
    (<<"p","e","k">> :> <<"B","e","i","j","i","n","g">>) @@
    (<<"i","c","n">> :> <<"S","e","o","u","l">>) @@
    (<<"h","k","g">> :> <<"H","o","n","g"," ","K","o","n","g">>) @@
    (<<"t","p","e">> :> <<"T","a","i","p","e","i">>) @@
    (<<"k","u","l">> :> <<"K","u","a","l","a"," ","L","u","m","p","u","r">>)

\* the dict common_cities, in the order the dict is iterated: key, name
common_cities == <<
    <<<<"m","u","m","b","a","i">>, <<"M","u","m","b","a","i">>>>,
    <<<<"d","e","l","h","i">>, <<"D","e","l","h","i">>>>,
    <<<<"b","a","n","g","a","l","o","r","e">>, <<"B","a","n","g","a","l","o","r","e">>>>,
    <<<<"c","h","e","n","n","a","i">>, <<"C","h","e","n","n","a","i">>>>,
    <<<<"h","y","d","e","r","a","b","a","d">>, <<"H","y","d","e","r","a","b","a","d">>>>,
    <<<<"k","o","l","k","a","t","a">>, <<"K","o","l","k","a","t","a">>>>,
    <<<<"l","o","n","d","o","n">>, <<"L","o","n","d","o","n">>>>,
    <<<<"p","a","r","i","s">>, <<"P","a","r","i","s">>>>,
    <<<<"t","o","k","y","o">>, <<"T","o","k","y","o">>>>,
    <<<<"n","e","w"," ","y","o","r","k">>, <<"N","e","w"," ","Y","o","r","k">>>>,
    <<<<"d","u","b","a","i">>, <<"D","u","b","a","i">>>>,
    <<<<"s","i","n","g","a","p","o","r","e">>, <<"S","i","n","g","a","p","o","r","e">>>>,
    <<<<"b","a","n","g","k","o","k">>, <<"B","a","n","g","k","o","k">>>>,
    <<<<"b","a","l","i">>, <<"B","a","l","i">>>>,
    <<<<"s","a","n"," ","f","r","a","n","c","i","s","c","o">>, <<"S","a","n"," ","F","r","a","n","c","i","s","c","o">>>>,
    <<<<"l","o","s"," ","a","n","g","e","l","e","s">>, <<"L","o","s"," ","A","n","g","e","l","e","s">>>>,
    <<<<"c","h","i","c","a","g","o">>, <<"C","h","i","c","a","g","o">>>>,
    <<<<"s","y","d","n","e","y">>, <<"S","y","d","n","e","y">>>>,
    <<<<"m","e","l","b","o","u","r","n","e">>, <<"M","e","l","b","o","u","r","n","e">>>>,
    <<<<"t","o","r","o","n","t","o">>, <<"T","o","r","o","n","t","o">>>>,
    <<<<"v","a","n","c","o","u","v","e","r">>, <<"V","a","n","c","o","u","v","e","r">>>>,
    <<<<"d","a","m","m","a","m">>, <<"D","a","m","m","a","m">>>>,
    <<<<"s","h","e","n","z","h","e","n">>, <<"S","h","e","n","z","h","e","n">>>>,
    <<<<"s","h","a","n","g","h","a","i">>, <<"S","h","a","n","g","h","a","i">>>>,
    <<<<"b","e","i","j","i","n","g">>, <<"B","e","i","j","i","n","g">>>>,
    <<<<"s","e","o","u","l">>, <<"S","e","o","u","l">>>>,
    <<<<"h","o","n","g"," ","k","o","n","g">>, <<"H","o","n","g"," ","K","o","n","g">>>>,
    <<<<"t","a","i","p","e","i">>, <<"T","a","i","p","e","i">>>>,
    <<<<"k","u","a","l","a"," ","l","u","m","p","u","r">>, <<"K","u","a","l","a"," ","L","u","m","p","u","r">>>>>>

\* \s
IsSpace(c) == c \in {" ", "\t", "\n"}

\* the letters a-z and A-Z
LETTERS == {LOWER[i] : i \in 1..Len(LOWER)} \cup {UPPER[i] : i \in 1..Len(UPPER)}

\* [a-zA-Z]
IsLetter(c) == c \in LETTERS

\* \w
IsWordChar(c) == IsLetter(c) \/ IsDigit(c) \/ c = "_"

\* the largest member of a non-empty set of integers
Largest(S) == CHOOSE n \in S : \A m \in S : m <= n

\* the smallest member of a non-empty set of integers
Smallest(S) == CHOOSE n \in S : \A m \in S : n <= m

\* the text has the word at position i
WordAt(s, i, word) ==
    /\ i >= 1
    /\ i + Len(word) - 1 <= Len(s)
    /\ \A j \in 1..Len(word) : s[i + j - 1] = word[j]

\* the last position of the run of whitespace that starts at a; a - 1 if none
RECURSIVE SpaceRunEnd(_, _)
SpaceRunEnd(s, a) ==
    IF a >= 1 /\ a <= Len(s) /\ IsSpace(s[a]) THEN SpaceRunEnd(s, a + 1) ELSE a - 1

\* the first position of the run of whitespace that ends at b; b + 1 if none
RECURSIVE SpaceRunStart(_, _)
SpaceRunStart(s, b) ==
    IF b >= 1 /\ b <= Len(s) /\ IsSpace(s[b]) THEN SpaceRunStart(s, b - 1) ELSE b + 1

\* \([A-Z]{3}\) at position a, with re.IGNORECASE
CodeAt(s, a) ==
    /\ a >= 1
    /\ a + 4 <= Len(s)
    /\ s[a] = "("
    /\ \A k \in (a + 1)..(a + 3) : IsLetter(s[k])
    /\ s[a + 4] = ")"

\* re.findall(r'\(([A-Z]{3})\)', text): the codes, left to right
RECURSIVE FindCodes(_, _)
FindCodes(s, a) ==
    IF a + 4 > Len(s) THEN <<>>
    ELSE IF CodeAt(s, a) /\ \A k \in (a + 1)..(a + 3) : LowerChar(s[k]) # s[k]
    THEN <<SubSeq(s, a + 1, a + 3)>> \o FindCodes(s, a + 5)
    ELSE FindCodes(s, a + 1)

\* str.strip()
Strip(s) ==
    IF \A k \in 1..Len(s) : IsSpace(s[k]) THEN <<>>
    ELSE SubSeq(s, Smallest({k \in 1..Len(s) : ~IsSpace(s[k])}),
                   Largest({k \in 1..Len(s) : ~IsSpace(s[k])}))

\* str.rstrip(',')
RStripCommas(s) ==
    IF \A k \in 1..Len(s) : s[k] = "," THEN <<>>
    ELSE SubSeq(s, 1, Largest({k \in 1..Len(s) : s[k] # ","}))

\* re.sub(r'\s*\([A-Z]{3}\)', '', text, flags=re.IGNORECASE)
RECURSIVE RemoveCodes(_)
RemoveCodes(s) ==
    IF \A a \in 1..Len(s) : ~CodeAt(s, a) THEN s
    ELSE LET a == Smallest({k \in 1..Len(s) : CodeAt(s, k)})
         IN  SubSeq(s, 1, SpaceRunStart(s, a - 1) - 1)
                 \o RemoveCodes(SubSeq(s, a + 5, Len(s)))

\* str.title(): a letter is upper case after a non-letter, lower case after a letter
Title(s) ==
    [k \in 1..Len(s) |->
        IF k = 1 \/ ~IsLetter(s[k - 1]) THEN UpperChar(s[k]) ELSE LowerChar(s[k])]

\* [^,\n]+(?:,\s*[^,\n]+)* matches s[a..b] as a whole
FreeText(s, a, b) ==
    /\ a <= b
    /\ s[a] \notin {",", "\n"}
    /\ s[b] \notin {",", "\n"}
    /\ \A k \in a..(b - 1) : ~(s[k] = "," /\ s[k + 1] = ",")
    /\ \A k \in a..b : s[k] = "\n" =>
          /\ SpaceRunStart(s, k) > a
          /\ s[SpaceRunStart(s, k) - 1] = ","
          /\ s[k + 1] # ","

\* [a-zA-Z\s,]+ matches s[a..b] as a whole
NameText(s, a, b) ==
    /\ a <= b
    /\ \A k \in a..b : IsLetter(s[k]) \/ IsSpace(s[k]) \/ s[k] = ","

\* [^,\s]+(?:\s+[^,\s]+)* matches s[a..b] as a whole
WordsText(s, a, b) ==
    /\ a <= b
    /\ ~IsSpace(s[a])
    /\ ~IsSpace(s[b])
    /\ \A k \in a..b : s[k] # ","

\* the group of a from-to pattern matches s[a..b] as a whole; the patterns
\* differ in their groups: "free" is the first pattern of from_to_patterns,
\* "name" the second and third, "words" the pattern of parse_flight_query
GroupText(kind, s, a, b) ==
    CASE kind = "free" -> FreeText(s, a, b)
      [] kind = "name" -> NameText(s, a, b)
      [] OTHER -> WordsText(s, a, b)

\* the first character the group of a pattern can match
GroupFirst(kind, c) ==
    CASE kind = "free" -> c \notin {",", "\n"}
      [] kind = "name" -> IsLetter(c) \/ IsSpace(c) \/ c = ","
      [] OTHER -> c # "," /\ ~IsSpace(c)

\* to\s+ at position t with the whitespace after it ending at w, then the
\* first character of the destination group: where that group starts, 0 when
\* there is no match
ToStart(kind, s, t, w) ==
    IF WordAt(s, t, <<"t","o">>) /\ \E u \in (t + 3)..(w + 1) : u <= Len(s) /\ GroupFirst(kind, s[u])
    THEN Largest({u \in (t + 3)..(w + 1) : u <= Len(s) /\ GroupFirst(kind, s[u])})
    ELSE 0

\* to\s+ at position t and the destination group after it
ToAt(kind, s, t) == ToStart(kind, s, t, SpaceRunEnd(s, t + 2))

\* (?:\([A-Z]{3}\)\s+)?to\s+ after the whitespace that ends at r; only the
\* first pattern has the optional airport code
ToAfterRun(kind, s, r) ==
    IF kind = "free" /\ CodeAt(s, r + 1) /\ r + 6 <= Len(s) /\ IsSpace(s[r + 6])
    THEN ToAt(kind, s, SpaceRunEnd(s, r + 6) + 1)
    ELSE ToAt(kind, s, r + 1)

\* \s+(?:\([A-Z]{3}\)\s+)?to\s+ after position q, then the first character of
\* the destination group: where that group starts, 0 when there is no match
ToAfter(kind, s, q) ==
    IF q + 1 <= Len(s) /\ IsSpace(s[q + 1]) THEN ToAfterRun(kind, s, SpaceRunEnd(s, q + 1))
    ELSE 0

\* the positions the origin group can end at when it starts at p
GroupEnds(kind, s, p) ==
    {q \in p..(Len(s) - 1) : ToAfter(kind, s, q) # 0 /\ GroupText(kind, s, p, q)}

\* the positions the origin group can start at when `from` is at i
GroupStarts(kind, s, i) ==
    {p \in (i + 5)..(SpaceRunEnd(s, i + 4) + 1) : GroupEnds(kind, s, p) # {}}

\* from\s+(group)\s+...to\s+(group) matches with `from` at position i
FromToMatches(kind, s, i) == WordAt(s, i, <<"f","r","o","m">>) /\ GroupStarts(kind, s, i) # {}

\* no match of a pattern
NoMatch == [matched |-> FALSE]

\* a match with its two groups, the second as long as it can be
MatchFrom(kind, s, p, q, u) ==
    [matched |-> TRUE,
     group1 |-> SubSeq(s, p, q),
     group2 |-> SubSeq(s, u, Largest({v \in u..Len(s) : GroupText(kind, s, u, v)})),
     span1 |-> <<p, q>>,
     span2 |-> <<u, Largest({v \in u..Len(s) : GroupText(kind, s, u, v)})>>]

\* the match whose origin group starts at p: the longest origin group
MatchStart(kind, s, p, q) == MatchFrom(kind, s, p, q, ToAfter(kind, s, q))

\* the match with `from` at position i: after the longest whitespace
MatchAt(kind, s, p) == MatchStart(kind, s, p, Largest(GroupEnds(kind, s, p)))

\* the match with `from` at position i, which is known to match
FromToAt(kind, s, i) == MatchAt(kind, s, Largest(GroupStarts(kind, s, i)))

\* re.search of a from-to pattern: the match with the leftmost `from` of a
\* set of positions that match
LeftmostFromTo(kind, s, at) ==
    IF at = {} THEN NoMatch ELSE FromToAt(kind, s, Smallest(at))

SearchFromTo(kind, s) ==
    LeftmostFromTo(kind, s, {i \in 1..Len(s) : FromToMatches(kind, s, i)})

\* the positions of `from` after a `flight` at j that .* reaches and that match
FromsAfter(s, j) ==
    {i \in (j + 6)..Len(s) :
        /\ \A k \in (j + 6)..(i - 1) : s[k] # "\n"
        /\ FromToMatches("name", s, i)}

\* the match of flight.*from... with `flight` at the leftmost of the positions
LeftmostFlight(s, at) ==
    IF at = {} THEN NoMatch ELSE FromToAt("name", s, Largest(FromsAfter(s, Smallest(at))))

\* re.search of flight.*from\s+(group)\s+to\s+(group): the leftmost `flight`,
\* then the last `from` on the same line that matches
SearchFlightFromTo(s) ==
    LeftmostFlight(s, {j \in 1..Len(s) : WordAt(s, j, <<"f","l","i","g","h","t">>) /\ FromsAfter(s, j) # {}})

\* the three from_to_patterns, in order, searched in the text
from_to_patterns(s) ==
    <<SearchFromTo("free", s), SearchFromTo("name", s), SearchFlightFromTo(s)>>

\* the name of the first city of a set of places of common_cities
FirstOf(hits) == IF hits = {} THEN NONE ELSE PyStr(common_cities[Smallest(hits)][2])

\* the name of the first city of common_cities whose key occurs in the lower-case text
FirstCityIn(lower) ==
    FirstOf({k \in 1..Len(common_cities) : Contains(lower, common_cities[k][1])})

\* match.group(n).strip().rstrip(',') with the airport codes removed
CleanGroup(group) == RemoveCodes(RStripCommas(Strip(group)))

\* a slot after one matching pattern: kept when set, else the known city of
\* the group, else the group in title case
SlotOr(slot, city, text) ==
    IF Truthy(slot) THEN slot
    ELSE IF Truthy(city) THEN city
    ELSE PyStr(Title(text))

SlotOfText(slot, text) == SlotOr(slot, FirstCityIn(Lower(text)), text)

SlotFrom(slot, group) == SlotOfText(slot, CleanGroup(group))

\* the loop over from_to_patterns from pattern k on: origin and destination
\* as the loop leaves them, and whether it returned
RECURSIVE PatternLoop(_, _, _, _)
RECURSIVE PatternStep(_, _, _, _)
PatternStep(matches, k, origin, destination) ==
    IF Truthy(origin) /\ Truthy(destination)
    THEN [returned |-> TRUE, origin |-> origin, destination |-> destination]
    ELSE PatternLoop(matches, k + 1, origin, destination)

PatternLoop(matches, k, origin, destination) ==
    IF k > Len(matches)
    THEN [returned |-> FALSE, origin |-> origin, destination |-> destination]
    ELSE IF ~matches[k].matched THEN PatternLoop(matches, k + 1, origin, destination)
    ELSE PatternStep(matches, k, SlotFrom(origin, matches[k].group1),
                     SlotFrom(destination, matches[k].group2))

\* re.search(r'\b' + re.escape(city_key) + r'\b', input_lower)
WordBounded(s, word) ==
    \E i \in 1..Len(s) :
        /\ WordAt(s, i, word)
        /\ i = 1 \/ ~IsWordChar(s[i - 1])
        /\ i + Len(word) > Len(s) \/ ~IsWordChar(s[i + Len(word)])

\* the names of a list of entries of common_cities
CityNames(found) == [k \in 1..Len(found) |-> found[k][2]]

\* detected_cities: the names of the cities mentioned, in the order of common_cities
detected_cities(input_lower) ==
    CityNames(SelectSeq(common_cities, LAMBDA city : WordBounded(input_lower, city[1])))

\* `x in list`
InList(x, list) == \E k \in 1..Len(list) : list[k] = x

\* the pair extract_origin_destination returns
Pair(origin, destination) == [origin |-> origin, destination |-> destination]

\* iata_to_city.get(code, code.upper()) of a code in lower case
CityOfCode(code) ==
    IF code \in DOMAIN iata_to_city THEN iata_to_city[code] ELSE Upper(code)

\* the airport codes decide: the two codes first in the text
CodePair(iata_matches) ==
    Pair(PyStr(CityOfCode(Lower(iata_matches[1]))), PyStr(CityOfCode(Lower(iata_matches[2]))))

\* step 4: the preferred departure city when no destination was found, then
\* any detected city as the destination
LastResort(detected, preferred_departure_city, origin, destination) ==
    LET origin4 == IF Len(preferred_departure_city) > 0 /\ ~Truthy(destination)
                   THEN PyStr(preferred_departure_city) ELSE origin
    IN  Pair(origin4,
             IF Truthy(origin4) /\ ~Truthy(destination) /\ Len(detected) > 0
             THEN PyStr(detected[1]) ELSE destination)

\* step 3: the cities mentioned and the preferred departure city
CityDecision(detected, preferred_departure_city, origin, destination) ==
    LET preferred == Len(preferred_departure_city) > 0
        remaining_cities == SelectSeq(detected, LAMBDA city : city # preferred_departure_city)
    IN  IF Len(detected) = 1 /\ preferred
        THEN Pair(PyStr(preferred_departure_city), PyStr(detected[1]))
        ELSE IF Len(detected) > 1 /\ preferred /\ InList(preferred_departure_city, detected)
                /\ Len(remaining_cities) > 0
        THEN Pair(PyStr(preferred_departure_city), PyStr(remaining_cities[1]))
        ELSE IF Len(detected) > 1 /\ ~(preferred /\ InList(preferred_departure_city, detected))
        THEN Pair(PyStr(detected[1]), PyStr(detected[2]))
        ELSE LastResort(detected, preferred_departure_city, origin,
                        IF Len(detected) = 1 THEN PyStr(detected[1]) ELSE destination)

\* steps 3 and 4 after the from-to patterns returned nothing
CityFallback(input_lower, preferred_departure_city, origin, destination) ==
    CityDecision(detected_cities(input_lower), preferred_departure_city, origin, destination)

\* step 2 and what follows it, from the state the pattern loop ends in
AfterPatterns(loop_end, input_lower, preferred_departure_city) ==
    IF loop_end.returned THEN Pair(loop_end.origin, loop_end.destination)
    ELSE CityFallback(input_lower, preferred_departure_city,
                      loop_end.origin, loop_end.destination)

\* step 1 and what follows it, from the airport codes found
AfterCodes(iata_matches, input_lower, preferred_departure_city) ==
    IF Len(iata_matches) >= 2 THEN CodePair(iata_matches)
    ELSE AfterPatterns(PatternLoop(from_to_patterns(input_lower), 1, NONE, NONE),
                       input_lower, preferred_departure_city)

\* the from-to patterns tried before the airport codes
PatternsBeforeCodes(loop_end, iata_matches, input_lower, preferred_departure_city) ==
    IF loop_end.returned THEN Pair(loop_end.origin, loop_end.destination)
    ELSE IF Len(iata_matches) >= 2 THEN CodePair(iata_matches)
    ELSE CityFallback(input_lower, preferred_departure_city,
                      loop_end.origin, loop_end.destination)

extract_origin_destinationPatternsFirst(user_input, preferred_departure_city) ==
    PatternsBeforeCodes(PatternLoop(from_to_patterns(Lower(user_input)), 1, NONE, NONE),
                        FindCodes(Upper(user_input), 1), Lower(user_input),
                        preferred_departure_city)

extract_origin_destination(user_input, preferred_departure_city) ==
    AfterCodes(FindCodes(Upper(user_input), 1), Lower(user_input), preferred_departure_city)

\* datetime.now() + timedelta(days=days)
FromNow(days) == [kind |-> "from_now", days |-> days, month |-> 0, day |-> 0]

\* the day of the current year a text was parsed to
ThisYear(month, day) == [kind |-> "this_year", days |-> 0, month |-> month, day |-> day]

DEFAULT_DEPARTURE_DAYS == 30
DEFAULT_RETURN_DAYS == DEFAULT_DEPARTURE_DAYS + 7

\* the month names strptime knows, lower case
MONTH_NAMES == <<
    <<"j","a","n","u","a","r","y">>,
    <<"f","e","b","r","u","a","r","y">>,
    <<"m","a","r","c","h">>,
    <<"a","p","r","i","l">>,
    <<"m","a","y">>,
    <<"j","u","n","e">>,
    <<"j","u","l","y">>,
    <<"a","u","g","u","s","t">>,
    <<"s","e","p","t","e","m","b","e","r">>,
    <<"o","c","t","o","b","e","r">>,
    <<"n","o","v","e","m","b","e","r">>,
    <<"d","e","c","e","m","b","e","r">>>>

\* the days of the months of 1900, the year strptime assumes
DAYS_IN_MONTH == <<31, 28, 31, 30, 31, 30, 31, 31, 30, 31, 30, 31>>

\* \w+ \d{1,2}(?:st|nd|rd|th)? at position k: the last position of the match, 0 if none
DayPhraseEnd(s, k) ==
    IF k > Len(s) \/ ~IsWordChar(s[k]) THEN 0
    ELSE LET w == Largest({b \in k..Len(s) : \A x \in k..b : IsWordChar(s[x])})
             d == IF w + 3 <= Len(s) /\ IsDigit(s[w + 3]) THEN w + 3 ELSE w + 2
         IN  IF w + 2 <= Len(s) /\ s[w + 1] = " " /\ IsDigit(s[w + 2])
             THEN IF \E suffix \in {<<"s","t">>, <<"n","d">>, <<"r","d">>, <<"t","h">>, <<"S","T">>, <<"N","D">>, <<"R","D">>, <<"T","H">>,
                                     <<"S","t">>, <<"N","d">>, <<"R","d">>, <<"T","h">>, <<"s","T">>, <<"n","D">>, <<"r","D">>, <<"t","H">>} :
                         WordAt(s, d + 1, suffix)
                  THEN d + 2 ELSE d
             ELSE 0

\* re.search of trigger.*?(\w+ \d{1,2}(?:st|nd|rd|th)?) with re.IGNORECASE, the
\* trigger looked for in the lower-case text: group 1
SearchDayPhrase(s, lower, trigger) ==
    LET Starts(i) == {k \in (i + Len(trigger))..Len(s) :
                         /\ \A x \in (i + Len(trigger))..(k - 1) : s[x] # "\n"
                         /\ DayPhraseEnd(s, k) # 0}
        at == {i \in 1..Len(s) : WordAt(lower, i, trigger) /\ Starts(i) # {}}
    IN  IF at = {} THEN NoMatch
        ELSE LET k == Smallest(Starts(Smallest(at)))
             IN  [matched |-> TRUE, group1 |-> SubSeq(s, k, DayPhraseEnd(s, k))]

\* (?:\s+and|\s+returning) after position q
DepartingOnEnd(lower, q) ==
    LET r == SpaceRunEnd(lower, q + 1)
    IN  r >= q + 1 /\ (WordAt(lower, r + 1, <<"a","n","d">>) \/ WordAt(lower, r + 1, <<"r","e","t","u","r","n","i","n","g">>))

\* (?:\s+for|\s+\.|$) after position q
ReturningOnEnd(lower, q) ==
    LET r == SpaceRunEnd(lower, q + 1)
    IN  \/ r >= q + 1 /\ (WordAt(lower, r + 1, <<"f","o","r">>) \/ WordAt(lower, r + 1, <<".">>))
        \/ q = Len(lower)
        \/ q = Len(lower) - 1 /\ lower[Len(lower)] = "\n"

\* re.search of trigger\s+([^,\n]+?) and the end that follows, with
\* re.IGNORECASE: group 1
SearchOnPhrase(s, lower, trigger, End(_, _)) ==
    LET Ends(p) == {q \in p..Len(s) : End(lower, q) /\ \A x \in p..q : s[x] \notin {",", "\n"}}
        Starts(i) == {p \in (i + Len(trigger) + 1)..(SpaceRunEnd(s, i + Len(trigger)) + 1) :
                         Ends(p) # {}}
        at == {i \in 1..Len(s) : WordAt(lower, i, trigger) /\ Starts(i) # {}}
    IN  IF at = {} THEN NoMatch
        ELSE LET p == Largest(Starts(Smallest(at)))
             IN  [matched |-> TRUE, group1 |-> SubSeq(s, p, Smallest(Ends(p)))]

\* re.sub(r'(\d+)(st|nd|rd|th)', r'\1', date_str)
RECURSIVE RemoveOrdinals(_)
RemoveOrdinals(s) ==
    LET at == {k \in 2..(Len(s) - 1) :
                  IsDigit(s[k - 1]) /\ ~IsDigit(s[k])
                  /\ \E suffix \in {<<"s","t">>, <<"n","d">>, <<"r","d">>, <<"t","h">>} : WordAt(s, k, suffix)}
    IN  IF at = {} THEN s
        ELSE SubSeq(s, 1, Smallest(at) - 1) \o RemoveOrdinals(SubSeq(s, Smallest(at) + 2, Len(s)))

\* %d of strptime: the day a text of one or two digits names, 0 if none
DayOf(text) ==
    IF Len(text) \in {1, 2} /\ (\A k \in 1..Len(text) : IsDigit(text[k]))
       /\ ParseInt(text) \in 1..31
    THEN ParseInt(text) ELSE 0

\* %m of strptime: the month a text of one or two digits names, 0 if none
MonthOf(text) ==
    IF Len(text) \in {1, 2} /\ (\A k \in 1..Len(text) : IsDigit(text[k]))
       /\ ParseInt(text) \in 1..12
    THEN ParseInt(text) ELSE 0

\* %B of strptime: the month of a full name, 0 if none
FullMonthOf(text) ==
    IF \E m \in 1..12 : MONTH_NAMES[m] = Lower(text)
    THEN CHOOSE m \in 1..12 : MONTH_NAMES[m] = Lower(text) ELSE 0

\* %b of strptime: the month of a three-letter name, 0 if none
ShortMonthOf(text) ==
    IF \E m \in 1..12 : SubSeq(MONTH_NAMES[m], 1, 3) = Lower(text)
    THEN CHOOSE m \in 1..12 : SubSeq(MONTH_NAMES[m], 1, 3) = Lower(text) ELSE 0

\* the text as two parts around its one separator: a run of whitespace, one
\* '/' or one '-'; no parts when the text has another form
TwoParts(text, IsSep(_), run) ==
    LET seps == {k \in 1..Len(text) : IsSep(text[k])}
    IN  IF seps = {} \/ Smallest(seps) = 1 \/ Largest(seps) = Len(text)
           \/ (\E k \in Smallest(seps)..Largest(seps) : k \notin seps)
           \/ (~run /\ Cardinality(seps) # 1)
        THEN <<>>
        ELSE <<SubSeq(text, 1, Smallest(seps) - 1), SubSeq(text, Largest(seps) + 1, Len(text))>>

\* datetime.strptime(clean_date, fmt) for the six formats, in order: the
\* month and day of the first format that parses, <<0, 0>> when all raise
StrpTime(clean_date) ==
    LET words == TwoParts(clean_date, IsSpace, TRUE)
        slash == TwoParts(clean_date, LAMBDA c : c = "/", FALSE)
        dash == TwoParts(clean_date, LAMBDA c : c = "-", FALSE)
        Date(m, d) == IF m # 0 /\ d # 0 /\ d <= DAYS_IN_MONTH[m] THEN <<m, d>> ELSE <<0, 0>>
        tries == <<IF words = <<>> THEN <<0, 0>> ELSE Date(FullMonthOf(words[1]), DayOf(words[2])),
                   IF words = <<>> THEN <<0, 0>> ELSE Date(ShortMonthOf(words[1]), DayOf(words[2])),
                   IF slash = <<>> THEN <<0, 0>> ELSE Date(MonthOf(slash[1]), DayOf(slash[2])),
                   IF dash = <<>> THEN <<0, 0>> ELSE Date(MonthOf(dash[1]), DayOf(dash[2])),
                   IF words = <<>> THEN <<0, 0>> ELSE Date(FullMonthOf(words[2]), DayOf(words[1])),
                   IF words = <<>> THEN <<0, 0>> ELSE Date(ShortMonthOf(words[2]), DayOf(words[1]))>>
        parsed == {k \in 1..Len(tries) : tries[k] # <<0, 0>>}
    IN  IF parsed = {} THEN <<0, 0>> ELSE tries[Smallest(parsed)]

parse_date_string(date_str) ==
    LET parsed == StrpTime(RemoveOrdinals(date_str))
    IN  IF parsed = <<0, 0>> THEN FromNow(DEFAULT_DEPARTURE_DAYS)
        ELSE ThisYear(parsed[1], parsed[2])

\* the date of the first pattern that matches, the default when none does
FirstDate(matches, default) ==
    LET hits == {k \in 1..Len(matches) : matches[k].matched}
    IN  IF hits = {} THEN default
        ELSE parse_date_string(Strip(matches[Smallest(hits)].group1))

extract_travel_dates(user_input) ==
    LET lower == Lower(user_input)
        date_patterns == <<SearchOnPhrase(user_input, lower, <<"d","e","p","a","r","t","i","n","g"," ","o","n">>, DepartingOnEnd),
                           SearchDayPhrase(user_input, lower, <<"d","e","p","a","r","t","u","r","e">>),
                           SearchDayPhrase(user_input, lower, <<"d","e","p","a","r","t">>),
                           SearchDayPhrase(user_input, lower, <<"l","e","a","v","i","n","g">>)>>
        return_patterns == <<SearchOnPhrase(user_input, lower, <<"r","e","t","u","r","n","i","n","g"," ","o","n">>, ReturningOnEnd),
                             SearchDayPhrase(user_input, lower, <<"r","e","t","u","r","n">>),
                             SearchDayPhrase(user_input, lower, <<"c","o","m","i","n","g"," ","b","a","c","k">>)>>
    IN  [departure_date |-> FirstDate(date_patterns, FromNow(DEFAULT_DEPARTURE_DAYS)),
         return_date |-> FirstDate(return_patterns, FromNow(DEFAULT_RETURN_DAYS))]

\* \b(\d{4}-\d{2}-\d{2})\b at position i
IsoDateAt(s, i) ==
    /\ i + 9 <= Len(s)
    /\ \A k \in {0, 1, 2, 3, 5, 6, 8, 9} : IsDigit(s[i + k])
    /\ s[i + 4] = "-"
    /\ s[i + 7] = "-"
    /\ i = 1 \/ ~IsWordChar(s[i - 1])
    /\ i + 10 > Len(s) \/ ~IsWordChar(s[i + 10])

\* the route of parse_flight_query: \bfrom\s+(group)\s+to\s+(group) with
\* re.IGNORECASE, matched in the lower-case text
RouteMatch(lower) ==
    LeftmostFromTo("words", lower,
                   {i \in 1..Len(lower) :
                       /\ i = 1 \/ ~IsWordChar(lower[i - 1])
                       /\ FromToMatches("words", lower, i)})

\* result['departure_date']: the first date of the text
FirstIsoDate(query_text, dates) ==
    IF dates = {} THEN NONE
    ELSE PyStr(SubSeq(query_text, Smallest(dates), Smallest(dates) + 9))

\* match.group(n).strip() of the route, None without a match
RouteGroup(query_text, route_match, n) ==
    IF ~route_match.matched THEN NONE
    ELSE IF n = 1
    THEN PyStr(Strip(SubSeq(query_text, route_match.span1[1], route_match.span1[2])))
    ELSE PyStr(Strip(SubSeq(query_text, route_match.span2[1], route_match.span2[2])))

\* the result dict of the fallback parsing
ParsedQuery(query_text, route_match) ==
    [origin |-> RouteGroup(query_text, route_match, 1),
     destination |-> RouteGroup(query_text, route_match, 2),
     departure_date |-> FirstIsoDate(query_text,
                            {i \in 1..Len(query_text) : IsoDateAt(query_text, i)}),
     return_date |-> NONE,
     num_passengers |-> 1]

\* parse_flight_query as it runs without the module enhanced_flight_parser,
\* which the sources do not hold: the branch of the ImportError
parse_flight_query(query_text) == ParsedQuery(query_text, RouteMatch(Lower(query_text)))

\* the other variables, which a call of a helper leaves alone
ServerVars == <<agent_executor, now, conversation_sessions, heap, req, arrivals, response,
                loop, fs>>

ExtractOriginDestination ==
    /\ call.pc = "called"
    /\ call.fn = "extract_origin_destination"
    /\ call' = [call EXCEPT !.pc = "done",
                            !.result = extract_origin_destination(call.user_input,
                                            call.preferred_departure_city)]
    /\ UNCHANGED ServerVars

ExtractTravelDates ==
    /\ call.pc = "called"
    /\ call.fn = "extract_travel_dates"
    /\ call' = [call EXCEPT !.pc = "done", !.result = extract_travel_dates(call.user_input)]
    /\ UNCHANGED ServerVars

ParseFlightQuery ==
    /\ call.pc = "called"
    /\ call.fn = "parse_flight_query"
    /\ call' = [call EXCEPT !.pc = "done", !.result = parse_flight_query(call.user_input)]
    /\ UNCHANGED ServerVars

\* the most fragments one typed request is put together from
MaxFragments == 2

Fragments ==
    {<<"f","l","i","g","h","t","s"," ","f","r","o","m"," ","M","u","m","b","a","i"," ","t","o"," ","D","e","l","h","i"," ","o","n"," ","2","0","2","5","-","0","7","-","1","5">>,
     <<"f","r","o","m"," ","M","u","m","b","a","i"," ","(","X","Q","Z",")"," ","t","o"," ","D","e","l","h","i">>,
     <<"(","D","M","M",")">>,
     <<"(","s","z","x",")">>,
     <<"P","a","r","i","s">>,
     <<"M","u","m","b","a","i">>,
     <<"L","o","n","d","o","n">>,
     <<"d","e","p","a","r","t","i","n","g"," ","o","n"," ","J","u","l","y"," ","1","0","t","h"," ","a","n","d"," ","r","e","t","u","r","n","i","n","g"," ","o","n"," ","J","u","l","y"," ","1","8","t","h">>}

TypedRequests ==
    {JoinWords(words) : words \in UNION {[1..n -> Fragments] : n \in 0..MaxFragments}}

\* preferences.departure_city: not set, a city of the table, another one
PreferredCities == {<<>>, <<"M","u","m","b","a","i">>, <<"T","o","k","y","o">>}

InitExtract ==
    /\ InitStore
    /\ \E fn \in {"detect_request_type", "extract_origin_destination",
                  "extract_travel_dates", "parse_flight_query"},
          user_input \in TypedRequests, preferred_departure_city \in PreferredCities :
            /\ fn # "extract_origin_destination" => preferred_departure_city = <<>>
            /\ call = [pc |-> "called", fn |-> fn, user_input |-> user_input,
                       preferred_departure_city |-> preferred_departure_city,
                       result |-> "None"]

NextExtract ==
    \/ DetectRequestType
    \/ ExtractOriginDestination
    \/ ExtractTravelDates
    \/ ParseFlightQuery

SpecExtract == InitExtract /\ [][NextExtract]_vars

----------------------------------------------------------------------------
(* The flight tools of create_langchain_tools (mcp_server/tools.py) and    *)
(* the flight helpers of app.py: how a request becomes the arguments of a  *)
(* provider call, or a message that asks for what is missing               *)

FLIGHT_KEYS == {"origin", "destination", "departure_date", "return_date", "num_passengers"}

KeyText(key) ==
    CASE key = "origin" -> <<"o","r","i","g","i","n">>
      [] key = "destination" -> <<"d","e","s","t","i","n","a","t","i","o","n">>
      [] key = "departure_date" -> <<"d","e","p","a","r","t","u","r","e","_","d","a","t","e">>
      [] key = "return_date" -> <<"r","e","t","u","r","n","_","d","a","t","e">>
      [] OTHER -> <<"n","u","m","_","p","a","s","s","e","n","g","e","r","s">>

\* "key":\s* at position i: the position that follows it, 0 when s does not
\* have the quoted key and the colon there
AfterKey(s, i, key) ==
    IF WordAt(s, i, <<"\"">> \o KeyText(key) \o <<"\"", ":">>)
    THEN SpaceRunEnd(s, i + Len(KeyText(key)) + 3) + 1
    ELSE 0

\* the first double quote after position j, 0 when there is none
ClosingQuote(s, j) ==
    IF \E k \in (j + 1)..Len(s) : s[k] = "\""
    THEN Smallest({k \in (j + 1)..Len(s) : s[k] = "\""})
    ELSE 0

\* "key":\s*"([^"]+)" matches at i (least = 1), or "key":\s*"([^"]*)" (least = 0)
QuotedAt(s, i, key, least) ==
    /\ AfterKey(s, i, key) >= 1
    /\ AfterKey(s, i, key) <= Len(s)
    /\ s[AfterKey(s, i, key)] = "\""
    /\ ClosingQuote(s, AfterKey(s, i, key)) >= AfterKey(s, i, key) + 1 + least

\* group(1) of the match that starts at i
QuotedGroupAt(s, j) == PyStr(SubSeq(s, j + 1, ClosingQuote(s, j) - 1))

\* re.search of the quoted value of a key: group(1), None without a match
QuotedGroup(s, key, least) ==
    IF \E i \in 1..Len(s) : QuotedAt(s, i, key, least)
    THEN QuotedGroupAt(s, AfterKey(s, Smallest({i \in 1..Len(s) : QuotedAt(s, i, key, least)}),
                                   key))
    ELSE NONE

\* the last position of the run of digits that starts at a; a - 1 if none
RECURSIVE DigitRunEnd(_, _)
DigitRunEnd(s, a) ==
    IF a >= 1 /\ a <= Len(s) /\ IsDigit(s[a]) THEN DigitRunEnd(s, a + 1) ELSE a - 1

\* "num_passengers":\s*(\d+) matches at i
DigitsAt(s, i, key) ==
    /\ AfterKey(s, i, key) >= 1
    /\ DigitRunEnd(s, AfterKey(s, i, key)) >= AfterKey(s, i, key)

\* int(pass_match.group(1)), None without a match
DigitsGroup(s, key) ==
    IF \E i \in 1..Len(s) : DigitsAt(s, i, key)
    THEN LET j == AfterKey(s, Smallest({i \in 1..Len(s) : DigitsAt(s, i, key)}), key)
         IN  PyInt(ParseInt(SubSeq(s, j, DigitRunEnd(s, j))))
    ELSE NONE

\* a dict without any of the keys
NoParams == [key \in FLIGHT_KEYS |-> MISSING]

\* json.loads raised JSONDecodeError
DecodeError == [ok |-> FALSE, d |-> NoParams]

\* the dict with the member key: value added; a later member replaces an
\* earlier one of the same key, other keys play no part in the tools
WithMember(d, name, value) ==
    IF \E key \in FLIGHT_KEYS : KeyText(key) = name
    THEN [d EXCEPT ![CHOOSE key \in FLIGHT_KEYS : KeyText(key) = name] = value]
    ELSE d

\* only whitespace from position i on
BlankFrom(s, i) == \A k \in i..Len(s) : IsSpace(s[k])

\* a JSON number without sign, fraction or exponent at a..b
JsonInt(s, a, b) == b >= a /\ (s[a] = "0" => b = a)

\* the end of the JSON value that starts at v (a string without escapes or
\* an integer), 0 when no such value starts there
JsonValueEnd(s, v) ==
    IF v > Len(s) THEN 0
    ELSE IF s[v] = "\"" THEN ClosingQuote(s, v)
    ELSE IF JsonInt(s, v, DigitRunEnd(s, v)) THEN DigitRunEnd(s, v)
    ELSE 0

JsonValue(s, v) ==
    IF s[v] = "\"" THEN QuotedGroupAt(s, v)
    ELSE PyInt(ParseInt(SubSeq(s, v, DigitRunEnd(s, v))))

\* the members of a JSON object from position i on, which follows "{" or
\* ","; d holds the members read so far
RECURSIVE JsonMembers(_, _, _)
JsonMembers(s, i, d) ==
    LET k == SpaceRunEnd(s, i) + 1
        colon == SpaceRunEnd(s, ClosingQuote(s, k) + 1) + 1
        v == SpaceRunEnd(s, colon + 1) + 1
        next == SpaceRunEnd(s, JsonValueEnd(s, v) + 1) + 1
    IN  IF /\ k <= Len(s)
           /\ s[k] = "\""
           /\ ClosingQuote(s, k) > 0
           /\ colon <= Len(s)
           /\ s[colon] = ":"
           /\ JsonValueEnd(s, v) > 0
           /\ next <= Len(s)
        THEN IF s[next] = "}" /\ BlankFrom(s, next + 1)
             THEN [ok |-> TRUE,
                   d |-> WithMember(d, SubSeq(s, k + 1, ClosingQuote(s, k) - 1),
                                    JsonValue(s, v))]
             ELSE IF s[next] = ","
             THEN JsonMembers(s, next + 1,
                              WithMember(d, SubSeq(s, k + 1, ClosingQuote(s, k) - 1),
                                         JsonValue(s, v)))
             ELSE DecodeError
        ELSE DecodeError

\* json.loads of a text that opens an object whose values are strings
\* without escapes and integers: the dict, or JSONDecodeError
json_loads(s) ==
    IF Len(s) = 0 \/ s[1] # "{" THEN DecodeError
    ELSE IF /\ SpaceRunEnd(s, 2) + 1 <= Len(s)
            /\ s[SpaceRunEnd(s, 2) + 1] = "}"
            /\ BlankFrom(s, SpaceRunEnd(s, 2) + 2)
    THEN [ok |-> TRUE, d |-> NoParams]
    ELSE JsonMembers(s, 2, NoParams)

\* the parameters of a call, each a Python value
Arguments(origin, destination, departure_date, return_date, num_passengers) ==
    [origin |-> origin, destination |-> destination, departure_date |-> departure_date,
     return_date |-> return_date, num_passengers |-> num_passengers]

\* flight_search, the JSON passed as the origin parameter:
\* parsed_input.get(key, the parameter) for every key
JsonArguments(args, parsed_input) ==
    IF parsed_input.ok
    THEN [key \in FLIGHT_KEYS |-> DictGet(parsed_input.d, key, args[key])]
    ELSE args

\* flight_search, the malformed input: the three values are taken together
\* when origin, destination and departure date all match
RegexArguments(args, s) ==
    IF /\ Truthy(QuotedGroup(s, "origin", 1))
       /\ Truthy(QuotedGroup(s, "destination", 1))
       /\ Truthy(QuotedGroup(s, "departure_date", 1))
    THEN Arguments(QuotedGroup(s, "origin", 1), QuotedGroup(s, "destination", 1),
                   QuotedGroup(s, "departure_date", 1),
                   IF Truthy(QuotedGroup(s, "return_date", 0))
                   THEN QuotedGroup(s, "return_date", 0) ELSE args.return_date,
                   IF DigitsGroup(s, "num_passengers").type = "int"
                   THEN DigitsGroup(s, "num_passengers") ELSE args.num_passengers)
    ELSE args

\* isinstance(origin, str) and origin.startswith('{"')
OpensJson(origin) == origin.type = "str" /\ WordAt(origin.v, 1, <<"{", "\"">>)

\* isinstance(origin, str) and ('origin' in origin and 'destination' in origin)
NamesRoute(origin) ==
    /\ origin.type = "str"
    /\ Contains(origin.v, KeyText("origin"))
    /\ Contains(origin.v, KeyText("destination"))

AfterJson(args) ==
    IF OpensJson(args.origin) THEN JsonArguments(args, json_loads(args.origin.v)) ELSE args

AfterRegex(args) ==
    IF NamesRoute(args.origin) THEN RegexArguments(args, args.origin.v) ELSE args

\* flight_search: the parameters after its handling of a payload that
\* arrives whole in the origin parameter
flight_search_arguments(args) == AfterRegex(AfterJson(args))

\* search_flights_flexible: the params dict of a request that is not
\* wrapped in braces, one key for each pattern that matches
RegexParams(s) ==
    [key \in FLIGHT_KEYS |->
        CASE key = "num_passengers" ->
                IF DigitsGroup(s, key).type = "int" THEN DigitsGroup(s, key) ELSE MISSING
          [] key = "return_date" ->
                IF Truthy(QuotedGroup(s, key, 0)) THEN QuotedGroup(s, key, 0) ELSE MISSING
          [] OTHER ->
                IF Truthy(QuotedGroup(s, key, 1)) THEN QuotedGroup(s, key, 1) ELSE MISSING]

\* flight_request.startswith('{') and flight_request.endswith('}')
InBraces(s) == Len(s) >= 1 /\ s[1] = "{" /\ s[Len(s)] = "}"

\* search_flights_flexible: params, or the JSONDecodeError of json.loads
flexible_params(flight_request) ==
    IF InBraces(flight_request) THEN json_loads(flight_request)
    ELSE [ok |-> TRUE, d |-> RegexParams(flight_request)]

\* convert_city_to_skyid: the table of city names and airport codes
city_mappings ==
    {<<<<"m","u","m","b","a","i">>, <<"B","O","M">>>>, <<<<"b","o","m","b","a","y">>, <<"B","O","M">>>>,
     <<<<"h","y","d","e","r","a","b","a","d">>, <<"H","Y","D">>>>, <<<<"d","e","l","h","i">>, <<"D","E","L">>>>,
     <<<<"n","e","w"," ","d","e","l","h","i">>, <<"D","E","L">>>>, <<<<"c","h","e","n","n","a","i">>, <<"M","A","A">>>>,
     <<<<"m","a","d","r","a","s">>, <<"M","A","A">>>>, <<<<"b","a","n","g","a","l","o","r","e">>, <<"B","L","R">>>>,
     <<<<"b","e","n","g","a","l","u","r","u">>, <<"B","L","R">>>>, <<<<"k","o","l","k","a","t","a">>, <<"C","C","U">>>>,
     <<<<"c","a","l","c","u","t","t","a">>, <<"C","C","U">>>>, <<<<"p","u","n","e">>, <<"P","N","Q">>>>,
     <<<<"g","o","a">>, <<"G","O","I">>>>, <<<<"a","h","m","e","d","a","b","a","d">>, <<"A","M","D">>>>,
     <<<<"k","o","c","h","i">>, <<"C","O","K">>>>, <<<<"c","o","c","h","i","n">>, <<"C","O","K">>>>,
     <<<<"t","h","i","r","u","v","a","n","a","n","t","h","a","p","u","r","a","m">>, <<"T","R","V">>>>, <<<<"t","r","i","v","a","n","d","r","u","m">>, <<"T","R","V">>>>,
     <<<<"j","a","i","p","u","r">>, <<"J","A","I">>>>, <<<<"l","u","c","k","n","o","w">>, <<"L","K","O">>>>,
     <<<<"c","h","a","n","d","i","g","a","r","h">>, <<"I","X","C">>>>, <<<<"i","n","d","o","r","e">>, <<"I","D","R">>>>,
     <<<<"n","a","g","p","u","r">>, <<"N","A","G">>>>, <<<<"v","a","d","o","d","a","r","a">>, <<"B","D","Q">>>>,
     <<<<"v","i","s","a","k","h","a","p","a","t","n","a","m">>, <<"V","T","Z">>>>, <<<<"b","h","u","b","a","n","e","s","w","a","r">>, <<"B","B","I">>>>,
     <<<<"c","o","i","m","b","a","t","o","r","e">>, <<"C","J","B">>>>, <<<<"v","i","j","a","y","a","w","a","d","a">>, <<"V","G","A">>>>,
     <<<<"s","r","i","n","a","g","a","r">>, <<"S","X","R">>>>, <<<<"a","g","a","r","t","a","l","a">>, <<"I","X","A">>>>,
     <<<<"i","m","p","h","a","l">>, <<"I","M","F">>>>, <<<<"d","i","b","r","u","g","a","r","h">>, <<"D","I","B">>>>,
     <<<<"g","u","w","a","h","a","t","i">>, <<"G","A","U">>>>, <<<<"r","a","i","p","u","r">>, <<"R","P","R">>>>,
     <<<<"r","a","n","c","h","i">>, <<"I","X","R">>>>, <<<<"j","o","d","h","p","u","r">>, <<"J","D","H">>>>,
     <<<<"u","d","a","i","p","u","r">>, <<"U","D","R">>>>, <<<<"j","a","m","m","u">>, <<"I","X","J">>>>,
     <<<<"p","a","t","n","a">>, <<"P","A","T">>>>, <<<<"v","a","r","a","n","a","s","i">>, <<"V","N","S">>>>,
     <<<<"a","u","r","a","n","g","a","b","a","d">>, <<"I","X","U">>>>, <<<<"m","a","n","g","a","l","o","r","e">>, <<"I","X","E">>>>,
     <<<<"h","u","b","l","i">>, <<"H","B","X">>>>, <<<<"t","i","r","u","p","a","t","i">>, <<"T","I","R">>>>,
     <<<<"r","a","j","k","o","t">>, <<"R","A","J">>>>, <<<<"b","h","a","v","n","a","g","a","r">>, <<"B","H","U">>>>,
     <<<<"p","o","r","b","a","n","d","a","r">>, <<"P","B","D">>>>, <<<<"l","o","n","d","o","n">>, <<"L","H","R">>>>,
     <<<<"n","e","w"," ","y","o","r","k">>, <<"J","F","K">>>>, <<<<"p","a","r","i","s">>, <<"C","D","G">>>>,
     <<<<"t","o","k","y","o">>, <<"N","R","T">>>>, <<<<"d","u","b","a","i">>, <<"D","X","B">>>>,
     <<<<"s","i","n","g","a","p","o","r","e">>, <<"S","I","N">>>>, <<<<"k","u","a","l","a"," ","l","u","m","p","u","r">>, <<"K","U","L">>>>,
     <<<<"b","a","n","g","k","o","k">>, <<"B","K","K">>>>, <<<<"b","a","l","i">>, <<"D","P","S">>>>,
     <<<<"h","o","n","g"," ","k","o","n","g">>, <<"H","K","G">>>>, <<<<"s","a","n"," ","f","r","a","n","c","i","s","c","o">>, <<"S","F","O">>>>,
     <<<<"l","o","s"," ","a","n","g","e","l","e","s">>, <<"L","A","X">>>>, <<<<"c","h","i","c","a","g","o">>, <<"O","R","D">>>>,
     <<<<"t","o","r","o","n","t","o">>, <<"Y","Y","Z">>>>, <<<<"s","y","d","n","e","y">>, <<"S","Y","D">>>>,
     <<<<"m","e","l","b","o","u","r","n","e">>, <<"M","E","L">>>>, <<<<"a","u","c","k","l","a","n","d">>, <<"A","K","L">>>>,
     <<<<"a","m","s","t","e","r","d","a","m">>, <<"A","M","S">>>>, <<<<"f","r","a","n","k","f","u","r","t">>, <<"F","R","A">>>>,
     <<<<"i","s","t","a","n","b","u","l">>, <<"I","S","T">>>>, <<<<"d","o","h","a">>, <<"D","O","H">>>>,
     <<<<"m","o","s","c","o","w">>, <<"S","V","O">>>>, <<<<"b","e","i","j","i","n","g">>, <<"P","E","K">>>>,
     <<<<"s","h","a","n","g","h","a","i">>, <<"P","V","G">>>>, <<<<"s","e","o","u","l">>, <<"I","C","N">>>>,
     <<<<"c","a","i","r","o">>, <<"C","A","I">>>>, <<<<"j","o","h","a","n","n","e","s","b","u","r","g">>, <<"J","N","B">>>>,
     <<<<"r","i","o"," ","d","e"," ","j","a","n","e","i","r","o">>, <<"G","I","G">>>>, <<<<"b","u","e","n","o","s"," ","a","i","r","e","s">>, <<"E","Z","E">>>>}

\* city_mappings.get(city.lower(), city.upper())
convert_city_to_skyid(city) ==
    IF \E pair \in city_mappings : pair[1] = Lower(city)
    THEN (CHOOSE pair \in city_mappings : pair[1] = Lower(city))[2]
    ELSE Upper(city)

\* the positions of the dashes of a text
Dashes(s) == {k \in 1..Len(s) : s[k] = "-"}

\* a field of a date: digits, at least one and at most width
DateField(s, a, b, width) ==
    /\ b >= a
    /\ b - a < width
    /\ \A k \in a..b : IsDigit(s[k])

\* the days of a month of a year, with the leap years of the calendar
DaysIn(year, month) ==
    IF month = 2 /\ year % 4 = 0 /\ (year % 100 # 0 \/ year % 400 = 0) THEN 29
    ELSE DAYS_IN_MONTH[month]

\* year, month and day make a date of the calendar
ValidDate(year, month, day) ==
    /\ year >= 1
    /\ month \in 1..12
    /\ day >= 1
    /\ day <= DaysIn(year, month)

\* datetime.strptime(s, '%Y-%m-%d') returns a date; it raises ValueError otherwise
StrpTimeIso(s) ==
    /\ Cardinality(Dashes(s)) = 2
    /\ Smallest(Dashes(s)) = 5
    /\ DateField(s, 1, 4, 4)
    /\ DateField(s, 6, Largest(Dashes(s)) - 1, 2)
    /\ DateField(s, Largest(Dashes(s)) + 1, Len(s), 2)
    /\ ValidDate(ParseInt(SubSeq(s, 1, 4)),
                 ParseInt(SubSeq(s, 6, Largest(Dashes(s)) - 1)),
                 ParseInt(SubSeq(s, Largest(Dashes(s)) + 1, Len(s))))

DESTINATION_REQUIRED == "Error: Destination is required for flight search"
DEPARTURE_REQUIRED == "Error: Departure date is required for flight search"
PROCESSING_ERROR == "Error processing flight request: "
FLEXIBLE_PARSE_ERROR == "Error: Could not parse flight request. Please provide JSON format with origin, destination, and departure_date."
FLEXIBLE_ORIGIN_REQUIRED == "Error: Origin is required"
FLEXIBLE_DESTINATION_REQUIRED == "Error: Destination is required"
FLEXIBLE_DEPARTURE_REQUIRED == "Error: Departure date is required"
FLEXIBLE_FAILED == "Flight search failed: "
NO_FLIGHTS_FOUND == "No flights found for "
NEED_DETAILS == "To search for flights, I need the "
HAPPY_TO_HELP == "I'd be happy to help you search for flights! Please provide the origin city, destination city, and departure date. For example: 'Find flights from Mumbai to Delhi on July 15, 2025'"
ERR_TIME_DATA == "time data does not match format '%Y-%m-%d'"
ERR_NO_LOWER == "object has no attribute 'lower'"

\* the provider calls made, in order: none
NotSent == << >>

\* what a flight tool or helper did: the arguments it worked with, the
\* kind and the text of its answer, what the answer asks for, and whether
\* and with which arguments a provider was called
Asked(args, text, named) ==
    [kind |-> "clarification", args |-> args, text |-> text, named |-> named,
     invoked |-> FALSE, sent |-> NotSent]
Failed(args, text) ==
    [kind |-> "error", args |-> args, text |-> text, named |-> {},
     invoked |-> FALSE, sent |-> NotSent]
Searched(args, text, sent) ==
    [kind |-> "answer", args |-> args, text |-> text, named |-> {},
     invoked |-> sent # << >>, sent |-> sent]

\* not value or value == 'None'
AbsentOrNone(value) == ~Truthy(value) \/ PyEq(value, PyStr(<<"N","o","n","e">>))

\* the arguments of the provider call of the two tools
SkyIdSearch(args) ==
    Arguments(PyStr(convert_city_to_skyid(args.origin.v)),
              PyStr(convert_city_to_skyid(args.destination.v)),
              args.departure_date, args.return_date, args.num_passengers)

\* the conversions and the parse of the date that precede the provider
\* call: the exception they raise, "" when they raise none
ConversionError(args) ==
    IF args.origin.type # "str" \/ args.destination.type # "str" THEN ERR_NO_LOWER
    ELSE IF args.departure_date.type # "str" THEN ERR_TIME_DATA
    ELSE IF ~StrpTimeIso(args.departure_date.v) THEN ERR_TIME_DATA
    ELSE ""

\* flight_search from its checks on, with the parameters args
flight_search_checks(args, result) ==
    IF AbsentOrNone(args.destination)
    THEN Asked(args, <<DESTINATION_REQUIRED>>, {"destination"})
    ELSE IF AbsentOrNone(args.departure_date)
    THEN Asked(args, <<DEPARTURE_REQUIRED>>, {"departure_date"})
    ELSE IF ConversionError(args) # ""
    THEN Failed(args, <<PROCESSING_ERROR, ConversionError(args)>>)
    ELSE Searched(args,
                  IF args.num_passengers.type = "int"
                  THEN flight_search_text(result, args.origin.v, args.destination.v,
                                          args.num_passengers.v)
                  ELSE <<SEARCH_ERROR>>,
                  <<SkyIdSearch(args)>>)

\* the answer text of search_flights_flexible, as the parts of its f-strings
flexible_text(result, args) ==
    IF HasData(result)
    THEN IF \E k \in 1..Len(FirstFive(result.data)) : result.data[k].type # "dict"
         THEN <<FLEXIBLE_FAILED, ERR_ATTRIBUTE>>
         ELSE <<"Found ", Len(result.data), " flights from ", args.origin.v, " to ",
                args.destination.v, " on ", args.departure_date.v>>
              \o [k \in 1..Len(FirstFive(result.data)) |-> result.data[k]]
    ELSE <<NO_FLIGHTS_FOUND, args.origin.v, " to ", args.destination.v, " on ",
           args.departure_date.v>>

\* the parameters search_flights_flexible extracts of params
FlexibleArguments(params) ==
    Arguments(DictGet(params, "origin", NONE), DictGet(params, "destination", NONE),
              DictGet(params, "departure_date", NONE), DictGet(params, "return_date", NONE),
              DictGet(params, "num_passengers", PyInt(1)))

\* search_flights_flexible from its checks on
flexible_checks(args, result) ==
    IF ~Truthy(args.origin)
    THEN Asked(args, <<FLEXIBLE_ORIGIN_REQUIRED>>, {"origin"})
    ELSE IF ~Truthy(args.destination)
    THEN Asked(args, <<FLEXIBLE_DESTINATION_REQUIRED>>, {"destination"})
    ELSE IF ~Truthy(args.departure_date)
    THEN Asked(args, <<FLEXIBLE_DEPARTURE_REQUIRED>>, {"departure_date"})
    ELSE IF ConversionError(args) # ""
    THEN Failed(args, <<PROCESSING_ERROR, ConversionError(args)>>)
    ELSE Searched(args,
                  IF args.num_passengers.type = "int" THEN flexible_text(result, args)
                  ELSE <<FLEXIBLE_FAILED>>,
                  <<SkyIdSearch(args)>>)

\* search_flights_flexible
search_flights_flexible(flight_request, result) ==
    IF flexible_params(flight_request).ok
    THEN flexible_checks(FlexibleArguments(flexible_params(flight_request).d), result)
    ELSE Asked(Arguments(PyStr(flight_request), NONE, NONE, NONE, PyInt(1)),
               <<FLEXIBLE_PARSE_ERROR>>, {"origin", "destination", "departure_date"})

\* a datetime among the Python values
PyDate(d) == [type |-> "datetime", v |-> d]

\* the names intelligent_flight_search gives to what parse_flight_query left empty
MissingInfo(parsed) == {key \in {"origin", "destination", "departure_date"} : ~Truthy(parsed[key])}

\* intelligent_flight_search: with everything parsed it calls flight_search
\* with keyword arguments; flight_search is the tool object the decorator
\* made of the function, which takes no such arguments, so the call raises
\* TypeError and the except clause answers
intelligent_flight_search(query) ==
    IF MissingInfo(parse_flight_query(query)) # {}
    THEN Asked(NoParams, <<NEED_DETAILS, MissingInfo(parse_flight_query(query))>>,
               MissingInfo(parse_flight_query(query)))
    ELSE Asked(NoParams, <<HAPPY_TO_HELP>>, {"origin", "destination", "departure_date"})

COULD_NOT_DETERMINE == "Could not determine the origin and destination for the flight search. Please specify them clearly (e.g., 'flights from New York to Paris') or set your departure city in the sidebar."
FLIGHT_OPTIONS == "Flight Options: "
SORRY_NO_FLIGHTS == "Sorry, no flights found for "

\* the days handle_flight_search_request adds to today for the departure
HANDLER_DEPARTURE_DAYS == 30

\* handle_flight_search_request of app.py; found is the number of flights
\* FlightSearchTool.execute returns
handle_flight_search_request(route, found) ==
    IF ~Truthy(route.origin) \/ ~Truthy(route.destination)
    THEN Asked(NoParams, <<COULD_NOT_DETERMINE>>, {"origin", "destination"})
    ELSE Searched(NoParams,
                  IF found > 0
                  THEN <<FLIGHT_OPTIONS, route.origin.v, route.destination.v, found>>
                  ELSE <<SORRY_NO_FLIGHTS, route.origin.v, route.destination.v>>,
                  <<Arguments(route.origin, route.destination,
                              PyDate(FromNow(HANDLER_DEPARTURE_DAYS)), NONE, PyInt(1))>>)

DEFAULT_ORIGIN == <<"N","e","w"," ","Y","o","r","k">>

\* destination_name.split(',')[0].strip()
BeforeComma(destination_name) ==
    IF \E k \in 1..Len(destination_name) : destination_name[k] = ","
    THEN Strip(SubSeq(destination_name, 1,
                      Smallest({k \in 1..Len(destination_name) : destination_name[k] = ","}) - 1))
    ELSE Strip(destination_name)

\* the suggestions that name a destination, in order
RECURSIVE WithDestination(_)
WithDestination(suggestions) ==
    IF suggestions = << >> THEN << >>
    ELSE (IF Head(suggestions) = << >> THEN << >> ELSE <<Head(suggestions)>>)
         \o WithDestination(Tail(suggestions))

\* origin = extracted_origin if extracted_origin else "New York"
OriginOrDefault(extracted_origin) ==
    IF Truthy(extracted_origin) THEN extracted_origin ELSE PyStr(DEFAULT_ORIGIN)

\* enhance_suggestions_with_flights of app.py: one search for every
\* suggestion that names a destination
enhance_suggestions_with_flights(suggestions, dates, origin) ==
    Searched(NoParams, <<"flight_summary", origin.v>>,
             [k \in 1..Len(WithDestination(suggestions)) |->
                 Arguments(origin, PyStr(BeforeComma(WithDestination(suggestions)[k])),
                           PyDate(dates.departure_date), PyDate(dates.return_date),
                           PyInt(1))])

FlightSearchTool ==
    /\ call.pc = "called"
    /\ call.fn = "flight_search"
    /\ call' = [call EXCEPT !.pc = "done",
                  !.result = flight_search_checks(
                                 flight_search_arguments(
                                     Arguments(call.origin, call.destination,
                                               call.departure_date, NONE, PyInt(1))),
                                 make_authenticated_request(call.provider, 1))]
    /\ UNCHANGED ServerVars

SearchFlightsFlexible ==
    /\ call.pc = "called"
    /\ call.fn = "search_flights_flexible"
    /\ call' = [call EXCEPT !.pc = "done",
                  !.result = search_flights_flexible(call.origin.v,
                                 make_authenticated_request(call.provider, 1))]
    /\ UNCHANGED ServerVars

IntelligentFlightSearch ==
    /\ call.pc = "called"
    /\ call.fn = "intelligent_flight_search"
    /\ call' = [call EXCEPT !.pc = "done",
                  !.result = intelligent_flight_search(call.user_input)]
    /\ UNCHANGED ServerVars

HandleFlightSearchRequest ==
    /\ call.pc = "called"
    /\ call.fn = "handle_flight_search_request"
    /\ call' = [call EXCEPT !.pc = "done",
                  !.result = handle_flight_search_request(
                                 extract_origin_destination(call.user_input,
                                     call.preferred_departure_city),
                                 call.found)]
    /\ UNCHANGED ServerVars

EnhanceSuggestionsWithFlights ==
    /\ call.pc = "called"
    /\ call.fn = "enhance_suggestions_with_flights"
    /\ call' = [call EXCEPT !.pc = "done",
                  !.result = enhance_suggestions_with_flights(call.suggestions,
                                 extract_travel_dates(call.user_input),
                                 OriginOrDefault(extract_origin_destination(call.user_input,
                                     call.preferred_departure_city).origin))]
    /\ UNCHANGED ServerVars

\* the most members one payload has, and the most parts one typed flight
\* request is put together from
MaxMembers == 3
MaxParts == 2

\* the members a payload is written with, in the order they are written in
Members ==
    <<<<"\"","o","r","i","g","i","n","\"",":"," ","\"","M","u","m","b","a","i","\"">>,
      <<"\"","o","r","i","g","i","n","\"",":"," ","\"","N","o","n","e","\"">>,
      <<"\"","d","e","s","t","i","n","a","t","i","o","n","\"",":"," ","\"","D","e","l","h","i","\"">>,
      <<"\"","d","e","p","a","r","t","u","r","e","_","d","a","t","e","\"",":"," ","\"","2","0","2","5","-","0","7","-","1","5","\"">>,
      <<"\"","d","e","p","a","r","t","u","r","e","_","d","a","t","e","\"",":"," ","\"","1","5"," ","J","u","l","y","\"">>,
      <<"\"","n","u","m","_","p","a","s","s","e","n","g","e","r","s","\"",":"," ","2">>>>

\* the members chosen, joined with ", "
RECURSIVE JoinMembers(_, _)
JoinMembers(chosen, k) ==
    IF k > Len(Members) THEN << >>
    ELSE IF k \notin chosen THEN JoinMembers(chosen, k + 1)
    ELSE IF \E m \in chosen : m > k
    THEN Members[k] \o <<",", " ">> \o JoinMembers(chosen, k + 1)
    ELSE Members[k]

\* a payload as a model writes it: bare, as a JSON object, or as an object
\* with a comma before the closing brace, which is not JSON
Payloads ==
    UNION {{JoinMembers(chosen, 1),
            <<"{">> \o JoinMembers(chosen, 1) \o <<"}">>,
            <<"{">> \o JoinMembers(chosen, 1) \o <<",", "}">>} :
           chosen \in {c \in SUBSET (1..Len(Members)) : Cardinality(c) <= MaxMembers}}

\* a parameter passed on its own: absent, empty, the text None, a value
PlainOrigins == {PyStr(<< >>), PyStr(<<"N","o","n","e">>), PyStr(C_Mumbai)}
PlainDestinations == {NONE, PyStr(<< >>), PyStr(<<"N","o","n","e">>), PyStr(<<"D","e","l","h","i">>)}
PlainDates ==
    {NONE, PyStr(<< >>), PyStr(<<"N","o","n","e">>), PyStr(<<"2","0","2","5","-","0","7","-","1","5">>), PyStr(<<"1","5"," ","J","u","l","y">>)}

FlightParts ==
    {<<"f","l","i","g","h","t","s">>, <<"f","r","o","m"," ","M","u","m","b","a","i"," ","t","o"," ","D","e","l","h","i">>, <<"o","n"," ","2","0","2","5","-","0","7","-","1","5">>, <<"t","o"," ","P","a","r","i","s">>,
     <<"d","e","p","a","r","t","i","n","g"," ","o","n"," ","J","u","l","y"," ","1","0","t","h">>}

FlightRequests ==
    {JoinWords(words) : words \in UNION {[1..n -> FlightParts] : n \in 0..MaxParts}}

\* the destinations of the suggestions to enhance; one names none
SuggestedDestinations == {<< >>, <<<<"P","a","r","i","s",","," ","F","r","a","n","c","e">>>>, <<<<"B","a","l","i">>, << >>, <<"T","o","k","y","o",","," ","J","a","p","a","n">>>>}

FlightCall(fn, origin, destination, departure_date, provider) ==
    [pc |-> "called", fn |-> fn, origin |-> origin, destination |-> destination,
     departure_date |-> departure_date, provider |-> provider, user_input |-> << >>,
     preferred_departure_city |-> << >>, found |-> 0, suggestions |-> << >>,
     result |-> "None"]

HelperCall(fn, user_input, preferred_departure_city, found, suggestions) ==
    [pc |-> "called", fn |-> fn, origin |-> NONE, destination |-> NONE,
     departure_date |-> NONE, provider |-> "data", user_input |-> user_input,
     preferred_departure_city |-> preferred_departure_city, found |-> found,
     suggestions |-> suggestions, result |-> "None"]

InitFlightTools ==
    /\ InitStore
    /\ \/ \E origin \in PlainOrigins, destination \in PlainDestinations,
             departure_date \in PlainDates, provider \in {"data", "empty"} :
                call = FlightCall("flight_search", origin, destination, departure_date,
                                  provider)
       \/ \E payload \in Payloads, fn \in {"flight_search", "search_flights_flexible"},
             provider \in {"data", "empty"} :
                call = FlightCall(fn, PyStr(payload), NONE, NONE, provider)
       \/ \E user_input \in FlightRequests :
                call = HelperCall("intelligent_flight_search", user_input, << >>, 0, << >>)
       \/ \E user_input \in FlightRequests, preferred_departure_city \in PreferredCities,
             found \in {0, 3} :
                call = HelperCall("handle_flight_search_request", user_input,
                                  preferred_departure_city, found, << >>)
       \/ \E user_input \in FlightRequests, preferred_departure_city \in PreferredCities,
             suggestions \in SuggestedDestinations :
                call = HelperCall("enhance_suggestions_with_flights", user_input,
                                  preferred_departure_city, 0, suggestions)

NextFlightTools ==
    \/ FlightSearchTool
    \/ SearchFlightsFlexible
    \/ IntelligentFlightSearch
    \/ HandleFlightSearchRequest
    \/ EnhanceSuggestionsWithFlights

SpecFlightTools == InitFlightTools /\ [][NextFlightTools]_vars

----------------------------------------------------------------------------
(* The token of the Amadeus tools: BaseAmadeusAPITool                      *)
(* (tools/BaseAmadeusAPITool.py), one tool object used by several callers  *)
(* at once                                                                 *)

\* the callers that use the tool object at the same time, the requests each
\* of them makes, and the tokens the provider issues
MaxCallers == 2
MaxRequests == 2
MaxTokens == 3

Callers == 1..MaxCallers

\* a caller that is not inside _make_authenticated_request
IdleCaller ==
    [pc |-> "idle", headers |-> 0, fresh |-> 0, calls |-> 0, refreshes |-> 0,
     first |-> "none", second |-> "none", result |-> "none", requests |-> 0]

\* what the provider answers to a request that carries the token: 401 when
\* the token has expired; a request can also fail on the way, and a 200 can
\* carry a body that is not JSON
Answers(token) ==
    IF token > call.expired THEN {"200", "bad_json", "500", "exception"}
    ELSE {"401", "exception"}

\* the value _make_authenticated_request returns for an answer that is not 401
ReturnedFor(answer) == IF answer = "200" THEN "data" ELSE "error"

\* headers = {"Authorization": f"Bearer {self.token}"} at the start of
\* _make_authenticated_request
SendRequest(t) ==
    /\ call.th[t].pc \in {"idle", "done"}
    /\ call.th[t].requests < MaxRequests
    /\ call' = [call EXCEPT !.th[t] = [IdleCaller EXCEPT !.pc = "get",
                                          !.headers = call.token,
                                          !.requests = call.th[t].requests + 1]]
    /\ UNCHANGED ServerVars

\* a branch on the status code that refreshes again for a 401 of the retry
FirstResponseRetryAll(t) ==
    /\ call.th[t].pc \in {"get", "retry"}
    /\ \E answer \in Answers(call.th[t].headers) :
          call' = [call EXCEPT !.th[t].calls = @ + 1,
                               !.th[t].first = answer,
                               !.th[t].pc = IF answer = "401" THEN "refresh" ELSE "done",
                               !.th[t].result = IF answer = "401" THEN "none"
                                                ELSE ReturnedFor(answer)]
    /\ UNCHANGED ServerVars

\* the first requests.get and the branch on its status code
FirstResponse(t) ==
    /\ call.th[t].pc = "get"
    /\ \E answer \in Answers(call.th[t].headers) :
          call' = [call EXCEPT !.th[t].calls = @ + 1,
                               !.th[t].first = answer,
                               !.th[t].pc = IF answer = "401" THEN "refresh" ELSE "done",
                               !.th[t].result = IF answer = "401" THEN "none"
                                                ELSE ReturnedFor(answer)]
    /\ UNCHANGED ServerVars

\* _get_access_token after a 401: the provider issues a new token, or the
\* call raises and the except clause of _make_authenticated_request returns
\* the error
GetAccessToken(t) ==
    /\ call.th[t].pc = "refresh"
    /\ \/ /\ call.issued < MaxTokens
          /\ call' = [call EXCEPT !.issued = @ + 1,
                                  !.th[t].refreshes = @ + 1,
                                  !.th[t].fresh = call.issued + 1,
                                  !.th[t].pc = "assign"]
       \/ call' = [call EXCEPT !.th[t].refreshes = @ + 1,
                               !.th[t].pc = "done",
                               !.th[t].result = "error"]
    /\ UNCHANGED ServerVars

\* self.token = the token _get_access_token returned
StoreToken(t) ==
    /\ call.th[t].pc = "assign"
    /\ call' = [call EXCEPT !.token = call.th[t].fresh, !.th[t].pc = "headers"]
    /\ UNCHANGED ServerVars

\* headers = {"Authorization": f"Bearer {self.token}"} after the refresh
ReadToken(t) ==
    /\ call.th[t].pc = "headers"
    /\ call' = [call EXCEPT !.th[t].headers = call.token, !.th[t].pc = "retry"]
    /\ UNCHANGED ServerVars

\* the second requests.get: its answer is returned, whatever it is
SecondResponse(t) ==
    /\ call.th[t].pc = "retry"
    /\ \E answer \in Answers(call.th[t].headers) :
          call' = [call EXCEPT !.th[t].calls = @ + 1,
                               !.th[t].second = answer,
                               !.th[t].pc = "done",
                               !.th[t].result = ReturnedFor(answer)]
    /\ UNCHANGED ServerVars

\* the tokens issued up to k reach the end of their lifetime; a token lives
\* far longer than the three calls of one request with their timeouts of 30
\* seconds, so none expires between its issue and the end of the request
\* that asked for it
TokenExpires ==
    /\ call.pc = "token"
    /\ \A t \in Callers : call.th[t].pc \notin {"assign", "headers", "retry"}
    /\ \E k \in (call.expired + 1)..call.issued : call' = [call EXCEPT !.expired = k]
    /\ UNCHANGED ServerVars

\* the tool object after __init__: self.token is the first token issued
InitToken ==
    /\ InitStore
    /\ call = [pc |-> "token", fn |-> "_make_authenticated_request", token |-> 1,
               issued |-> 1, expired |-> 0, th |-> [t \in Callers |-> IdleCaller]]

NextToken ==
    \/ \E t \in Callers : SendRequest(t)
    \/ \E t \in Callers : FirstResponse(t)
    \/ \E t \in Callers : GetAccessToken(t)
    \/ \E t \in Callers : StoreToken(t)
    \/ \E t \in Callers : ReadToken(t)
    \/ \E t \in Callers : SecondResponse(t)
    \/ TokenExpires

SpecToken == InitToken /\ [][NextToken]_vars

----------------------------------------------------------------------------
(* The cost of a trip: TravelAgent.plan_trip and _calculate_total_cost     *)
(* (agents/travel_agent.py)                                                *)

\* str(price): of a string, of an int, and of the price dict of a provider
\* offer
PriceText(price) ==
    CASE price.type = "str" -> price.v
      [] price.type = "int" -> Str(price.v)
      [] OTHER -> <<"{","'","c","u","r","r","e","n","c","y","'",":"," ","'","E","U","R","'",","," ","'","t","o","t","a","l","'",":"," ","'","1","0","0",".","0","0","'","}">>

\* s.replace(c, '')
RECURSIVE Without(_, _)
Without(s, c) ==
    IF s = << >> THEN << >>
    ELSE (IF Head(s) = c THEN << >> ELSE <<Head(s)>>) \o Without(Tail(s), c)

\* str(entry.get('price', '0')).replace('$', '').replace(',', '')
CostText(entry) == Without(Without(PriceText(DictGet(entry, "price", PyStr(<<"0">>))), "$"), ",")

\* the positions of the decimal points of a text
Points(s) == {k \in 1..Len(s) : s[k] = "."}

\* float(s) returns for a text of digits with at most one decimal point,
\* whitespace around it allowed; it raises ValueError for a text with any
\* other character (signs, exponents and the names inf and nan play no part
\* in prices)
IsFloat(s) ==
    /\ \A k \in 1..Len(Strip(s)) : IsDigit(Strip(s)[k]) \/ Strip(s)[k] = "."
    /\ Cardinality(Points(Strip(s))) <= 1
    /\ \E k \in 1..Len(Strip(s)) : IsDigit(Strip(s)[k])

\* the two digits after the point, as hundredths
Fraction(digits) ==
    IF Len(digits) = 0 THEN 0
    ELSE IF Len(digits) = 1 THEN 10 * ParseInt(digits)
    ELSE ParseInt(SubSeq(digits, 1, 2))

\* float(s) in hundredths, for a text that IsFloat with at most two decimals
Hundredths(s) ==
    IF Points(s) = {} THEN 100 * ParseInt(s)
    ELSE 100 * ParseInt(SubSeq(s, 1, Smallest(Points(s)) - 1))
         + Fraction(SubSeq(s, Smallest(Points(s)) + 1, Len(s)))

\* sum(float(...) for entry in entries), in hundredths
RECURSIVE CostSum(_)
CostSum(entries) ==
    IF entries = << >> THEN 0
    ELSE Hundredths(Strip(CostText(Head(entries)))) + CostSum(Tail(entries))

ERR_FLOAT == "could not convert string to float"

\* TravelAgent._calculate_total_cost: the sum, or the ValueError of float()
calculate_total_cost(flights, hotels, activities) ==
    IF \A k \in 1..Len(flights \o hotels \o activities) :
          IsFloat(CostText((flights \o hotels \o activities)[k]))
    THEN Returned("total_cost", CostSum(flights) + CostSum(hotels) + CostSum(activities))
    ELSE Raised(ERR_FLOAT)

\* an entry of a list of flights, hotels or activities, by its price
Priced(price) == [price |-> price]

\* the flights TravelAgent.search_flights returns for a provider result:
\* offers carry their price as a dict
FlightsOf(result) ==
    IF HasData(result) THEN [k \in 1..Len(result.data) |-> Priced(PyDict(<< >>))] ELSE << >>

\* the hotel of the except clause of TravelAgent.search_hotels
SIMULATED_HOTEL_PRICE == PyStr(<<"$","2","0","0"," ","p","e","r"," ","n","i","g","h","t">>)

\* TravelAgent.plan_trip with the default tools: the flights of the provider,
\* the simulated hotel (hotel_search raises TypeError for the keyword
\* arguments of search_hotels), the activities of the planner, and the cost
PlanTrip ==
    /\ call.pc = "called"
    /\ call.fn = "plan_trip"
    /\ call' = [call EXCEPT !.pc = "done",
                  !.flights = FlightsOf(make_authenticated_request(call.provider, 1)),
                  !.hotels = <<Priced(SIMULATED_HOTEL_PRICE)>>,
                  !.result = calculate_total_cost(
                                 FlightsOf(make_authenticated_request(call.provider, 1)),
                                 <<Priced(SIMULATED_HOTEL_PRICE)>>, call.activities)]
    /\ UNCHANGED ServerVars

CalculateTotalCost ==
    /\ call.pc = "called"
    /\ call.fn = "_calculate_total_cost"
    /\ call' = [call EXCEPT !.pc = "done",
                  !.result = calculate_total_cost(call.flights, call.hotels, call.activities)]
    /\ UNCHANGED ServerVars

\* the most flights of a list
MaxEntries == 2

\* prices as the tools write them: none, the number of the simulated flight,
\* the texts of the fallback flights and hotels, a plain text, the dict of a
\* provider offer
Prices ==
    {MISSING, PyInt(800), PyStr(<<"$","1",",","2","5","0",".","5","0">>), PyStr(<<"$","2","0","0"," ","p","e","r"," ","n","i","g","h","t">>), PyStr(<<" ","4","5",".","5"," ">>),
     PyDict(<< >>)}

PricedLists(n) == UNION {[1..k -> {Priced(price) : price \in Prices}] : k \in 0..n}

InitCost ==
    /\ InitStore
    /\ \/ \E flights \in PricedLists(MaxEntries), hotels \in PricedLists(1),
             activities \in PricedLists(1) :
                call = [pc |-> "called", fn |-> "_calculate_total_cost", provider |-> "data",
                        flights |-> flights, hotels |-> hotels, activities |-> activities,
                        result |-> Returned("none", 0)]
       \/ \E provider \in AmadeusOutcomes \ {"malformed"}, activities \in PricedLists(1) :
                call = [pc |-> "called", fn |-> "plan_trip", provider |-> provider,
                        flights |-> << >>, hotels |-> << >>, activities |-> activities,
                        result |-> Returned("none", 0)]

NextCost ==
    \/ PlanTrip
    \/ CalculateTotalCost

SpecCost == InitCost /\ [][NextCost]_vars

----------------------------------------------------------------------------
(* The fallback flights of tools/amadeus_flight_search.py, and two          *)
(* syntheses of fallback flights for the same request                       *)

\* AmadeusFlightSearch._get_airport_code: the table of names and codes
airport_codes ==
    {<<<<"M","U","M","B","A","I">>, <<"B","O","M">>>>, <<<<"B","O","M","B","A","Y">>, <<"B","O","M">>>>,
     <<<<"D","E","L","H","I">>, <<"D","E","L">>>>, <<<<"N","E","W"," ","D","E","L","H","I">>, <<"D","E","L">>>>,
     <<<<"B","A","N","G","A","L","O","R","E">>, <<"B","L","R">>>>, <<<<"B","E","N","G","A","L","U","R","U">>, <<"B","L","R">>>>,
     <<<<"C","H","E","N","N","A","I">>, <<"M","A","A">>>>, <<<<"M","A","D","R","A","S">>, <<"M","A","A">>>>,
     <<<<"H","Y","D","E","R","A","B","A","D">>, <<"H","Y","D">>>>, <<<<"K","O","L","K","A","T","A">>, <<"C","C","U">>>>,
     <<<<"C","A","L","C","U","T","T","A">>, <<"C","C","U">>>>, <<<<"P","U","N","E">>, <<"P","N","Q">>>>,
     <<<<"G","O","A">>, <<"G","O","I">>>>, <<<<"K","O","C","H","I">>, <<"C","O","K">>>>,
     <<<<"C","O","C","H","I","N">>, <<"C","O","K">>>>, <<<<"A","H","M","E","D","A","B","A","D">>, <<"A","M","D">>>>,
     <<<<"J","A","I","P","U","R">>, <<"J","A","I">>>>, <<<<"L","O","N","D","O","N">>, <<"L","H","R">>>>,
     <<<<"P","A","R","I","S">>, <<"C","D","G">>>>, <<<<"N","E","W"," ","Y","O","R","K">>, <<"J","F","K">>>>,
     <<<<"T","O","K","Y","O">>, <<"N","R","T">>>>, <<<<"D","U","B","A","I">>, <<"D","X","B">>>>,
     <<<<"S","I","N","G","A","P","O","R","E">>, <<"S","I","N">>>>, <<<<"B","A","N","G","K","O","K">>, <<"B","K","K">>>>,
     <<<<"H","O","N","G"," ","K","O","N","G">>, <<"H","K","G">>>>, <<<<"L","O","S"," ","A","N","G","E","L","E","S">>, <<"L","A","X">>>>,
     <<<<"C","H","I","C","A","G","O">>, <<"O","R","D">>>>, <<<<"S","Y","D","N","E","Y">>, <<"S","Y","D">>>>,
     <<<<"M","E","L","B","O","U","R","N","E">>, <<"M","E","L">>>>, <<<<"T","O","R","O","N","T","O">>, <<"Y","Y","Z">>>>,
     <<<<"V","A","N","C","O","U","V","E","R">>, <<"Y","V","R">>>>, <<<<"A","M","S","T","E","R","D","A","M">>, <<"A","M","S">>>>,
     <<<<"F","R","A","N","K","F","U","R","T">>, <<"F","R","A">>>>, <<<<"Z","U","R","I","C","H">>, <<"Z","U","R">>>>,
     <<<<"M","I","L","A","N">>, <<"M","X","P">>>>, <<<<"R","O","M","E">>, <<"F","C","O">>>>,
     <<<<"M","A","D","R","I","D">>, <<"M","A","D">>>>, <<<<"B","A","R","C","E","L","O","N","A">>, <<"B","C","N">>>>,
     <<<<"I","S","T","A","N","B","U","L">>, <<"I","S","T">>>>, <<<<"D","O","H","A">>, <<"D","O","H">>>>,
     <<<<"A","B","U"," ","D","H","A","B","I">>, <<"A","U","H">>>>, <<<<"K","U","A","L","A"," ","L","U","M","P","U","R">>, <<"K","U","L">>>>,
     <<<<"M","A","N","I","L","A">>, <<"M","N","L">>>>, <<<<"J","A","K","A","R","T","A">>, <<"C","G","K">>>>,
     <<<<"B","A","L","I">>, <<"D","P","S">>>>, <<<<"S","E","O","U","L">>, <<"I","C","N">>>>,
     <<<<"B","E","I","J","I","N","G">>, <<"P","E","K">>>>, <<<<"S","H","A","N","G","H","A","I">>, <<"P","V","G">>>>,
     <<<<"M","O","S","C","O","W">>, <<"S","V","O">>>>}

\* location_upper[:3].ljust(3, 'A')
FirstThree(location_upper) ==
    IF Len(location_upper) >= 3 THEN SubSeq(location_upper, 1, 3)
    ELSE location_upper \o [k \in 1..(3 - Len(location_upper)) |-> "A"]

\* AmadeusFlightSearch._get_airport_code
get_airport_code(location) ==
    IF \E pair \in airport_codes : pair[1] = Strip(Upper(location))
    THEN (CHOOSE pair \in airport_codes : pair[1] = Strip(Upper(location)))[2]
    ELSE FirstThree(Strip(Upper(location)))

\* AmadeusFlightSearch._get_fallback_flights, the flight of index i
AfsFlight(i, origin, destination, return_date) ==
    LET airline == TT_AIRLINES[(i % 5) + 1]
        base == BASE_PRICES[(i % Len(BASE_PRICES)) + 1]
        flight_info ==
            [id |-> <<"f","a","l","l","b","a","c","k","_">> \o Str(i + 1),
             price |-> <<"$">> \o Str(IF return_date # NoDate THEN (base * 18) \div 10
                                      ELSE base),
             currency |-> "USD",
             departure_airport |-> get_airport_code(origin),
             arrival_airport |-> get_airport_code(destination),
             departure_time |-> <<"2","0","2","5","-","0","7","-">> \o Str(15 + i) \o <<"T">> \o Str(8 + i * 2)
                                \o <<":","0","0",":","0","0">>,
             arrival_time |-> <<"2","0","2","5","-","0","7","-">> \o Str(15 + i) \o <<"T">> \o Str(14 + i * 3)
                              \o <<":","0","0",":","0","0">>,
             duration |-> <<"P","T">> \o Str(6 + i) \o <<"H">> \o Str(30 + i * 15) \o <<"M">>,
             stops |-> i,
             airline |-> Upper(SubSeq(airline, 1, 2)),
             flight_number |-> Upper(SubSeq(airline, 1, 2)) \o Str(1000 + i),
             aircraft |-> "737",
             booking_class |-> "ECONOMY",
             trip_type |-> IF return_date # NoDate THEN "round-trip" ELSE "one-way"]
        return_info ==
            [return_departure_time |-> <<"2","0","2","5","-","0","7","-">> \o Str(20 + i) \o <<"T">>
                                       \o Str(10 + i * 2) \o <<":","0","0",":","0","0">>,
             return_arrival_time |-> <<"2","0","2","5","-","0","7","-">> \o Str(20 + i) \o <<"T">>
                                     \o Str(16 + i * 3) \o <<":","0","0",":","0","0">>,
             return_duration |-> <<"P","T">> \o Str(6 + i) \o <<"H">> \o Str(45 + i * 10)
                                 \o <<"M">>,
             return_stops |-> i]
    IN IF return_date # NoDate THEN DictUpdate(flight_info, return_info) ELSE flight_info

\* AmadeusFlightSearch.search_flights when the provider call raises: the
\* three flights of _get_fallback_flights
AfsFallback ==
    /\ fs.pc = "called"
    /\ fs.tool = "amadeus_flight_search"
    /\ fs' = [fs EXCEPT !.pc = "done", !.outcome = "list",
                        !.flights = [k \in 1..3 |->
                                        AfsFlight(k - 1, fs.origin, fs.destination,
                                                  fs.return_date)]]
    /\ UNCHANGED <<agent_executor, now, conversation_sessions, heap, req, arrivals,
                   response, loop, call>>

\* the same request is made once more; call keeps what the first synthesis
\* gave
Resynthesize ==
    /\ fs.pc = "done"
    /\ call.pc = "first"
    /\ call' = [call EXCEPT !.pc = "second", !.flights = fs.flights,
                            !.outcome = fs.outcome]
    /\ fs' = [IdleSearch EXCEPT !.pc = "called", !.tool = fs.tool,
                !.provider = fs.provider, !.origin = fs.origin,
                !.destination = fs.destination, !.date = fs.date,
                !.return_date = fs.return_date]
    /\ UNCHANGED <<agent_executor, now, conversation_sessions, heap, req, arrivals,
                   response, loop>>

\* a provider that fails, for each of the three tools and every input
InitSynthesis ==
    /\ agent_executor = "None"
    /\ now = 0
    /\ conversation_sessions = EmptyDict
    /\ heap = EmptyDict
    /\ req = [r \in Slots |-> IdleReq]
    /\ arrivals = 0
    /\ response = NoResponse
    /\ loop = IdleLoop
    /\ call = [pc |-> "first", fn |-> "_get_fallback_flights", flights |-> << >>,
               outcome |-> "none"]
    /\ \E tool \in {"travel_tools", "FlightSearchTool", "amadeus_flight_search"},
          provider \in {"unavailable", "raises"},
          origin \in Origins, destination \in Destinations \cup {C_London},
          date \in Dates, return_date \in ReturnDates :
            fs = [IdleSearch EXCEPT !.pc = "called", !.tool = tool,
                    !.provider = provider, !.origin = origin,
                    !.destination = destination, !.date = date,
                    !.return_date = return_date]

\* the draws of the random module, fewer than in NextFlights: two
\* syntheses already differ when one draw differs
NextSynthesis ==
    \/ TtExecute
    \/ FbExecute
    \/ AfsFallback
    \/ TtFallbackStep
    \/ \E base_hour \in RAND_BASE_HOUR, price \in RAND_DOMESTIC_PRICE \cup RAND_OTHER_PRICE :
            FbFallbackInit(base_hour, 3, 8, 3, price)
    \/ \E variation \in RAND_VARIATION :
            FbFallbackStep(variation, 1, 0, 100, <<1, 0>>, 4, 3, 8, 3)
    \/ Resynthesize

SpecSynthesis == InitSynthesis /\ [][NextSynthesis]_vars

----------------------------------------------------------------------------
(* The itinerary planner: ItineraryPlannerTool.execute of                  *)
(* tools/travel_tools.py with the answers of the local model               *)

PyBool(b) == [type |-> "bool", v |-> b]

\* the text of a key of a suggestion
SuggestionKeyText ==
    [destination |-> <<"d","e","s","t","i","n","a","t","i","o","n">>, description |-> <<"d","e","s","c","r","i","p","t","i","o","n">>,
     best_time_to_visit |-> <<"b","e","s","t","_","t","i","m","e","_","t","o","_","v","i","s","i","t">>,
     estimated_budget |-> <<"e","s","t","i","m","a","t","e","d","_","b","u","d","g","e","t">>, duration |-> <<"d","u","r","a","t","i","o","n">>,
     activities |-> <<"a","c","t","i","v","i","t","i","e","s">>,
     accommodation_suggestions |-> <<"a","c","c","o","m","m","o","d","a","t","i","o","n","_","s","u","g","g","e","s","t","i","o","n","s">>,
     transportation |-> <<"t","r","a","n","s","p","o","r","t","a","t","i","o","n">>, local_tips |-> <<"l","o","c","a","l","_","t","i","p","s">>,
     weather_info |-> <<"w","e","a","t","h","e","r","_","i","n","f","o">>, safety_info |-> <<"s","a","f","e","t","y","_","i","n","f","o">>]

\* d[name] = value; the keys that _validate_suggestions never reads are
\* not kept
WithKey(d, name, value) ==
    IF \E key \in SuggestionKeys : SuggestionKeyText[key] = name
    THEN [d EXCEPT ![CHOOSE key \in SuggestionKeys : SuggestionKeyText[key] = name] = value]
    ELSE d

\* the first position at or after i that holds no whitespace
JsonSkip(s, i) == SpaceRunEnd(s, i) + 1

\* the last position of the JSON value that starts at i, 0 when no value
\* starts there: strings without escapes, numbers without sign, fraction
\* or exponent, null, true, false, arrays and objects
RECURSIVE JsonEnd(_, _)
RECURSIVE JsonElementsEnd(_, _)
RECURSIVE JsonMembersEnd(_, _)
JsonEnd(s, i) ==
    IF i < 1 \/ i > Len(s) THEN 0
    ELSE IF s[i] = "\"" THEN ClosingQuote(s, i)
    ELSE IF IsDigit(s[i])
    THEN (IF JsonInt(s, i, DigitRunEnd(s, i)) THEN DigitRunEnd(s, i) ELSE 0)
    ELSE IF WordAt(s, i, <<"n","u","l","l">>) \/ WordAt(s, i, <<"t","r","u","e">>) THEN i + 3
    ELSE IF WordAt(s, i, <<"f","a","l","s","e">>) THEN i + 4
    ELSE IF s[i] = "["
    THEN (IF JsonSkip(s, i + 1) <= Len(s) /\ s[JsonSkip(s, i + 1)] = "]"
          THEN JsonSkip(s, i + 1)
          ELSE JsonElementsEnd(s, JsonSkip(s, i + 1)))
    ELSE IF s[i] = "{"
    THEN (IF JsonSkip(s, i + 1) <= Len(s) /\ s[JsonSkip(s, i + 1)] = "}"
          THEN JsonSkip(s, i + 1)
          ELSE JsonMembersEnd(s, JsonSkip(s, i + 1)))
    ELSE 0

\* the position of the "]" that closes the array whose next element starts
\* at j, 0 when the array is malformed
JsonElementsEnd(s, j) ==
    LET n == JsonSkip(s, JsonEnd(s, j) + 1)
    IN  IF JsonEnd(s, j) = 0 \/ n > Len(s) THEN 0
        ELSE IF s[n] = "]" THEN n
        ELSE IF s[n] = "," THEN JsonElementsEnd(s, JsonSkip(s, n + 1))
        ELSE 0

\* the end of the value of the member whose key starts at k, 0 when the
\* member is malformed
JsonMemberEnd(s, k) ==
    IF k <= Len(s) /\ s[k] = "\"" /\ ClosingQuote(s, k) > 0
       /\ JsonSkip(s, ClosingQuote(s, k) + 1) <= Len(s)
       /\ s[JsonSkip(s, ClosingQuote(s, k) + 1)] = ":"
    THEN JsonEnd(s, JsonSkip(s, JsonSkip(s, ClosingQuote(s, k) + 1) + 1))
    ELSE 0

\* the position of the "}" that closes the object whose next member starts
\* at k, 0 when the object is malformed
JsonMembersEnd(s, k) ==
    LET n == JsonSkip(s, JsonMemberEnd(s, k) + 1)
    IN  IF JsonMemberEnd(s, k) = 0 \/ n > Len(s) THEN 0
        ELSE IF s[n] = "}" THEN n
        ELSE IF s[n] = "," THEN JsonMembersEnd(s, JsonSkip(s, n + 1))
        ELSE 0

\* the Python value of the well-formed JSON value that starts at i
RECURSIVE JsonDecode(_, _)
RECURSIVE JsonElements(_, _)
RECURSIVE JsonObject(_, _, _)
JsonDecode(s, i) ==
    IF s[i] = "\"" THEN QuotedGroupAt(s, i)
    ELSE IF IsDigit(s[i]) THEN PyInt(ParseInt(SubSeq(s, i, DigitRunEnd(s, i))))
    ELSE IF s[i] = "n" THEN NONE
    ELSE IF s[i] \in {"t", "f"} THEN PyBool(s[i] = "t")
    ELSE IF s[i] = "["
    THEN PyList(IF s[JsonSkip(s, i + 1)] = "]" THEN << >>
                ELSE JsonElements(s, JsonSkip(s, i + 1)))
    ELSE PyDict(IF s[JsonSkip(s, i + 1)] = "}" THEN NoKeys
                ELSE JsonObject(s, JsonSkip(s, i + 1), NoKeys))

JsonElements(s, j) ==
    LET n == JsonSkip(s, JsonEnd(s, j) + 1)
    IN  <<JsonDecode(s, j)>>
        \o (IF s[n] = "," THEN JsonElements(s, JsonSkip(s, n + 1)) ELSE << >>)

JsonObject(s, k, d) ==
    LET v == JsonSkip(s, JsonSkip(s, ClosingQuote(s, k) + 1) + 1)
        n == JsonSkip(s, JsonEnd(s, v) + 1)
        member == WithKey(d, SubSeq(s, k + 1, ClosingQuote(s, k) - 1), JsonDecode(s, v))
    IN  IF s[n] = "," THEN JsonObject(s, JsonSkip(s, n + 1), member) ELSE member

JSONDecodeError == [kind |-> "raise", value |-> "JSONDecodeError"]
ValueError == [kind |-> "raise", value |-> "ValueError"]

\* json.loads(response_text): the value, whitespace around it allowed, or
\* JSONDecodeError
JsonLoads(s) ==
    IF JsonEnd(s, JsonSkip(s, 1)) > 0 /\ BlankFrom(s, JsonEnd(s, JsonSkip(s, 1)) + 1)
    THEN Valid(JsonDecode(s, JsonSkip(s, 1)))
    ELSE JSONDecodeError

\* the last position of the run of line feeds that starts at a
RECURSIVE NewlineRunEnd(_, _)
NewlineRunEnd(s, a) ==
    IF a <= Len(s) /\ s[a] = "\n" THEN NewlineRunEnd(s, a + 1) ELSE a - 1

\* the end of the match of \d+[\)\.:]|Suggestion \d+:|\n\n+ at position i,
\* 0 without a match
DelimiterEnd(s, i) ==
    IF IsDigit(s[i])
    THEN (IF DigitRunEnd(s, i) + 1 <= Len(s) /\ s[DigitRunEnd(s, i) + 1] \in {")", ".", ":"}
          THEN DigitRunEnd(s, i) + 1 ELSE 0)
    ELSE IF WordAt(s, i, <<"S","u","g","g","e","s","t","i","o","n"," ">>)
    THEN (IF /\ DigitRunEnd(s, i + 11) >= i + 11
             /\ DigitRunEnd(s, i + 11) + 1 <= Len(s)
             /\ s[DigitRunEnd(s, i + 11) + 1] = ":"
          THEN DigitRunEnd(s, i + 11) + 1 ELSE 0)
    ELSE IF WordAt(s, i, <<"\n", "\n">>) THEN NewlineRunEnd(s, i)
    ELSE 0

\* re.split(r'(?:\d+[\)\.:]|Suggestion \d+:|\n\n+)', text): the sections
\* from position i on, the current one begun at start
RECURSIVE Sections(_, _, _)
Sections(s, i, start) ==
    IF i > Len(s) THEN <<SubSeq(s, start, Len(s))>>
    ELSE IF DelimiterEnd(s, i) > 0
    THEN <<SubSeq(s, start, i - 1)>>
         \o Sections(s, DelimiterEnd(s, i) + 1, DelimiterEnd(s, i) + 1)
    ELSE Sections(s, i + 1, start)

\* the positions of a character in a text
PositionsOf(s, c) == {k \in 1..Len(s) : s[k] = c}

\* s.split(c)
RECURSIVE SplitOn(_, _)
SplitOn(s, c) ==
    IF PositionsOf(s, c) = {} THEN <<s>>
    ELSE <<SubSeq(s, 1, Smallest(PositionsOf(s, c)) - 1)>>
         \o SplitOn(SubSeq(s, Smallest(PositionsOf(s, c)) + 1, Len(s)), c)

\* s.strip(chars)
StripChars(s, chars) ==
    IF \A k \in 1..Len(s) : s[k] \in chars THEN << >>
    ELSE SubSeq(s, Smallest({k \in 1..Len(s) : s[k] \notin chars}),
                   Largest({k \in 1..Len(s) : s[k] \notin chars}))

\* key.strip().lower().replace(' ', '_') of line.split(':', 1)
LineKey(line) ==
    ReplaceChar(Lower(Strip(SubSeq(line, 1, Smallest(PositionsOf(line, ":")) - 1))), " ", "_")

\* value.strip() of line.split(':', 1)
LineText(line) == Strip(SubSeq(line, Smallest(PositionsOf(line, ":")) + 1, Len(line)))

\* [v.strip().strip('"') for v in value.strip('[]').split(',')]
BracketedList(value) ==
    [i \in 1..Len(SplitOn(StripChars(value, {"[", "]"}), ",")) |->
        PyStr(StripChars(Strip(SplitOn(StripChars(value, {"[", "]"}), ",")[i]), {"\""}))]

\* the value stored for a key: a list for the four list keys
LineValue(key, value) ==
    IF \E k \in ListKeys : SuggestionKeyText[k] = key
    THEN (IF PositionsOf(value, "[") # {} /\ PositionsOf(value, "]") # {}
          THEN PyList(BracketedList(value))
          ELSE PyList(<<PyStr(value)>>))
    ELSE PyStr(value)

\* current_suggestion after the lines of a section
RECURSIVE SectionDict(_, _)
SectionDict(lines, d) ==
    IF lines = << >> THEN d
    ELSE SectionDict(Tail(lines),
            IF PositionsOf(Head(lines), ":") # {}
            THEN WithKey(d, LineKey(Strip(Head(lines))),
                         LineValue(LineKey(Strip(Head(lines))), LineText(Strip(Head(lines)))))
            ELSE d)

\* the suggestions of the sections: a section gives one when a line of it
\* has a colon
RECURSIVE SectionSuggestions(_)
SectionSuggestions(sections) ==
    IF sections = << >> THEN << >>
    ELSE (IF PositionsOf(Head(sections), ":") # {}
          THEN <<PyDict(SectionDict(SplitOn(Strip(Head(sections)), "\n"), NoKeys))>>
          ELSE << >>)
         \o SectionSuggestions(Tail(sections))

\* ItineraryPlannerTool._parse_structured_text(text)
parse_structured_text(text) ==
    IF SectionSuggestions(Sections(text, 1, 1)) # << >>
    THEN validate_suggestions(SectionSuggestions(Sections(text, 1, 1)))
    ELSE ValueError

\* execute returned without a return statement
ReturnsNone == [kind |-> "none", value |-> << >>]

\* the outcome of the steps of execute that follow response_text: the
\* suggestions, None, or the error that the except clause will catch
planner_answer(response_text) ==
    IF response_text.type # "str" THEN TypeError
    ELSE IF Strip(response_text.v) \in {<< >>, <<"[">>, <<"]">>} THEN ValueError
    ELSE IF JsonLoads(response_text.v).kind = "raise"
    THEN parse_structured_text(response_text.v)
    ELSE IF JsonLoads(response_text.v).value.type = "list"
    THEN validate_suggestions(JsonLoads(response_text.v).value.v)
    ELSE IF JsonLoads(response_text.v).value.type = "dict"
    THEN validate_suggestions(<<JsonLoads(response_text.v).value>>)
    ELSE ReturnsNone

\* ItineraryPlannerTool.execute(location, duration, preferences) with the
\* destination that _extract_destination finds in the location; ollama
\* tells what the client package and the local model do
execute(ollama, destination, duration) ==
    IF \/ ollama.package = "missing"
       \/ ollama.models # "available"
       \/ ollama.generate = "raises"
       \/ ollama.response.type = "missing"
       \/ planner_answer(ollama.response).kind = "raise"
    THEN Valid(get_fallback_suggestions(destination, duration))
    ELSE planner_answer(ollama.response)

Execute ==
    /\ call.pc = "called"
    /\ call.fn = "execute"
    /\ call' = [call EXCEPT !.pc = "done",
                            !.result = execute(call.ollama, call.destination, call.duration)]
    /\ UNCHANGED ServerVars

\* what the local model can be made to answer
ResponseTexts ==
    {<<>>, <<" ">>, <<"[">>, <<" ","]","\n">>, <<"[","]">>,
     <<"[","{","\"","d","e","s","t","i","n","a","t","i","o","n","\"",":"," ","\"","G","o","a","\"",","," ","\"","d","u","r","a","t","i","o","n","\"",":"," ","\"","4","\"","}",","," ","{","\"","d","e","s","t","i","n","a","t","i","o","n","\"",":"," ","\"","B","a","l","i","\"","}","]">>,
     <<"[","{","\"","d","e","s","t","i","n","a","t","i","o","n","\"",":"," ","\"","G","o","a","\"",","," ","\"","a","c","t","i","v","i","t","i","e","s","\"",":"," ","[","\"","a","\"",","," ","\"","b","\"",","," ","\"","c","\"",","," ","\"","d","\"",","," ","\"","e","\"",","," ","\"","f","\"","]","}","]">>,
     <<"[","{","\"","d","e","s","t","i","n","a","t","i","o","n","\"",":"," ","\"","G","o","a","\"","}",","," ","{","\"","d","e","s","t","i","n","a","t","i","o","n","\"",":"," ","\"","B","a","l","i","\"","}",","," ","{","\"","d","e","s","t","i","n","a","t","i","o","n","\"",":"," ","\"","R","o","m","e","\"","}","]">>,
     <<"[","1",","," ","\"","x","\"",","," ","n","u","l","l","]">>,
     <<" ","{","\"","d","e","s","t","i","n","a","t","i","o","n","\"",":"," ","\"","G","o","a","\"",","," ","\"","n","o","t","e","\"",":"," ","t","r","u","e","}"," ">>,
     <<"{","\"","d","e","s","t","i","n","a","t","i","o","n","\"",":"," ","\"","G","o","a","\"",","," ","\"","a","c","t","i","v","i","t","i","e","s","\"",":"," ","5","}">>,
     <<"[","{","\"","l","o","c","a","l","_","t","i","p","s","\"",":"," ","n","u","l","l","}",","," ","{","\"","d","e","s","t","i","n","a","t","i","o","n","\"",":"," ","\"","B","a","l","i","\"","}","]">>,
     <<"5">>, <<"\"","G","o","a","\"">>, <<"n","u","l","l">>, <<"f","a","l","s","e">>,
     <<"h","e","l","l","o">>,
     <<"D","e","s","t","i","n","a","t","i","o","n",":"," ","G","o","a","\n","D","u","r","a","t","i","o","n",":"," ","4"," ","d","a","y","s","\n","A","c","t","i","v","i","t","i","e","s",":"," ","[","\"","s","w","i","m","\"",","," ","\"","s","u","r","f","\"","]">>,
     <<"1","."," ","D","e","s","t","i","n","a","t","i","o","n",":"," ","G","o","a","\n","\n","2","."," ","D","e","s","t","i","n","a","t","i","o","n",":"," ","B","a","l","i","\n","L","o","c","a","l"," ","T","i","p","s",":"," ","c","a","r","r","y"," ","c","a","s","h">>,
     <<"S","u","g","g","e","s","t","i","o","n"," ","1",":"," ","G","o","a","\n","S","u","g","g","e","s","t","i","o","n"," ","2",":"," ","B","a","l","i">>,
     <<"{","\"","d","e","s","t","i","n","a","t","i","o","n","\"",":"," ","\"","G","o","a","\"">>,
     <<"[","{","\"","d","e","s","t","i","n","a","t","i","o","n","\"",":"," ","\"","G","o","a","\"","}",",","]">>}

\* ollama.generate: it raises, or answers without the response key, with
\* None or with a text
Responses == {MISSING, NONE} \cup {PyStr(s) : s \in ResponseTexts}

Ollamas ==
    {[package |-> "missing", models |-> "available", generate |-> "answers",
      response |-> PyStr(<<"[","]">>)],
     [package |-> "installed", models |-> "raises", generate |-> "answers",
      response |-> PyStr(<<"[","]">>)],
     [package |-> "installed", models |-> "absent", generate |-> "answers",
      response |-> PyStr(<<"[","]">>)],
     [package |-> "installed", models |-> "available", generate |-> "raises",
      response |-> PyStr(<<"[","]">>)]}
    \cup {[package |-> "installed", models |-> "available", generate |-> "answers",
           response |-> r] : r \in Responses}

InitPlanner ==
    /\ InitStore
    /\ \E ollama \in Ollamas, destination \in Locations, duration \in {1, 5} :
            call = [pc |-> "called", fn |-> "execute", ollama |-> ollama,
                    destination |-> destination, duration |-> duration,
                    result |-> ReturnsNone]

NextPlanner == Execute

SpecPlanner == InitPlanner /\ [][NextPlanner]_vars

----------------------------------------------------------------------------
(* Properties *)

StoredSessions == {heap[conversation_sessions[sid]] : sid \in DOMAIN conversation_sessions}

\* C1: the history a stored session reports through get_messages never holds
\* more than the last K exchanges (2 * K messages)
C1_HistoryBounded ==
    \A session \in StoredSessions : Len(get_messages(session)) <= 2 * K

\* C2: a stored session that has expired never becomes active again, and a
\* request that bears the id of an expired session gets a session made by that
\* very request, whose history is the request's user turn alone and whose context
\* is the request's context alone
C2_ExpiredSessionIsReplaced ==
    [][/\ \A r \in Slots :
            (req[r].pc = "idle" /\ req'[r].pc = "awaiting" /\ req'[r].found = "expired")
            => LET sid == req'[r].session_id
                   session == heap'[conversation_sessions'[sid]]
               IN /\ req'[r].obj = conversation_sessions'[sid]
                  /\ session.born = req'[r].arrival
                  /\ session.messages =
                        <<[role |-> "user", content |-> req'[r].query,
                           arrival |-> req'[r].arrival]>>
                  /\ session.context = req'[r].context
       /\ \A sid \in DOMAIN conversation_sessions :
            is_expired(heap[conversation_sessions[sid]])
            => ~ /\ sid \in DOMAIN conversation_sessions'
                 /\ conversation_sessions'[sid] = conversation_sessions[sid]
                 /\ ~is_expired_at(heap'[conversation_sessions'[sid]], now')
      ]_vars

C2_Witness ==
    \E r \in Slots :
        /\ req[r].pc = "awaiting"
        /\ req[r].found = "expired"
        /\ DOMAIN req[r].context = {}

\* C3: in every stored history the turns are in arrival order and the assistant
\* turn of a request directly follows the user turn of that request
C3_TurnsInArrivalOrder ==
    \A session \in StoredSessions :
        LET m == session.messages IN
        \A i \in 1..Len(m), j \in 1..Len(m) :
            /\ (i < j => m[i].arrival <= m[j].arrival)
            /\ (m[i].arrival = m[j].arrival /\ m[i].role = "user" /\ m[j].role = "assistant")
               => j = i + 1

\* C4: a step of an advance-conversation request on session A leaves every
\* non-expired stored session B with another id as it was: same object, same
\* history, same context
C4_SessionsIsolated ==
    [][\A r \in Slots : \A B \in DOMAIN conversation_sessions :
            LET A == IF req[r].pc = "idle" THEN req'[r].session_id ELSE req[r].session_id
                ref == conversation_sessions[B]
            IN (req'[r] # req[r] /\ A # B /\ ~is_expired(heap[ref]))
               => /\ B \in DOMAIN conversation_sessions'
                  /\ conversation_sessions'[B] = ref
                  /\ heap'[ref] = heap[ref]
      ]_vars

C4_Witness ==
    \E r \in Slots : \E B \in DOMAIN conversation_sessions :
        /\ req[r].pc = "awaiting"
        /\ req[r].session_id # B
        /\ Len(heap[req[r].obj].messages) >= 1
        /\ Len(heap[conversation_sessions[B]].messages) >= 2
        /\ DOMAIN heap[conversation_sessions[B]].context # {}
        /\ ~is_expired(heap[conversation_sessions[B]])

\* C5: a loop that ends at the iteration cap or the deadline has run at most
\* MAX_ITERATIONS iterations and its request is answered with success and a
\* non-empty output
C5_CappedLoopReturnsOutput ==
    (loop.pc = "returned" /\ loop.ended \in {"iteration_cap", "deadline"})
    => /\ loop.iterations <= MAX_ITERATIONS
       /\ response.http = 200
       /\ response.status = "success"
       /\ response.output # EMPTY

\* C6: after two consecutive outputs that fail to parse the loop is not
\* running any more
C6_AbortAfterTwoParseFailures ==
    loop.parse_failures >= 2 => loop.pc # "running"

\* the canned text the keywords of a query select
KeywordText(query) ==
    LET suggest == \E w \in SUGGEST_WORDS : Contains(Lower(query), w)
        plan == \E w \in PLAN_WORDS : Contains(Lower(query), w)
    IN CASE suggest -> FALLBACK_SUGGESTIONS
         [] ~suggest /\ plan -> FALLBACK_ITINERARY
         [] OTHER -> FALLBACK_GENERAL

\* C7: without a reasoning engine an advance-conversation request is answered
\* with success and the non-empty canned text its keywords select (suggestion
\* bullets before day-by-day skeleton before general guidance), and no session
\* is touched
C7_FallbackIsCannedSuccess ==
    (agent_executor = "None" /\ response.route = "agent")
    => /\ response.http = 200
       /\ response.status = "success"
       /\ response.output # EMPTY
       /\ response.output = KeywordText(response.request.query)
       /\ response.session_id = FALLBACK_SESSION
       /\ conversation_sessions = EmptyDict

C7_Witness ==
    /\ agent_executor = "None"
    /\ response.route = "agent"
    /\ response.request.query = W_Where \o <<" ">> \o W_today
    /\ response.output = FALLBACK_SUGGESTIONS

\* C8: when the reasoning loop or a tool raises, the caller gets a well-formed
\* success response and never the text of the raised error
C8_ErrorTextNotSurfaced ==
    (response.route \in {"agent", "tool"} /\ response.request.raised # EMPTY)
    => /\ response.http = 200
       /\ response.detail # response.request.raised
       /\ response.output # response.request.raised

\* C9: fetching or deleting a conversation by an id that is not in the store
\* is answered "not found" (404), not success
C9_UnknownIdIsNotFound ==
    (response.route \in {"get", "delete"} /\ response.request.found = "absent")
    => response.http = 404


\* C10: when the provider fails on every call or is unavailable, a flight
\* search returns exactly 3 flights whose stops are 0, 1, 2 in that order and
\* whose price strings are not empty
C10_ThreeFallbackFlights ==
    (fs.pc = "done" /\ fs.provider \in {"unavailable", "raises"})
    => /\ fs.outcome = "list"
       /\ Len(fs.flights) = 3
       /\ \A i \in 1..Len(fs.flights) :
            fs.flights[i].stops = i - 1 /\ fs.flights[i].price # EMPTY

\* C11: when the provider fails or answers with an empty payload, the
\* flight_search tool, TravelAgent.search_flights / search_hotels and
\* HotelSearchTool.execute return a non-empty synthesized fallback result:
\* no exception is raised, no empty result and no error text is returned
C11_FailureYieldsFallback ==
    (call.pc = "done" /\ call.provider \in ProviderFailures)
        => /\ call.result.kind = "return"
           /\ call.result.source = "fallback"
           /\ Len(call.result.value) > 0

\* the suggestions of one result of the call under test
SuggestionsOf(result) ==
    IF result.kind # "return" THEN {}
    ELSE IF call.fn = "validate_suggestion_data" THEN {result.value}
    ELSE {result.value[i] : i \in 1..Len(result.value)}

\* the suggestions returned to the caller so far
ReturnedSuggestions ==
    IF "outputs" \in DOMAIN call
    THEN UNION {SuggestionsOf(call.outputs[i]) : i \in 1..Len(call.outputs)}
    ELSE {}

\* C12: every suggestion returned to a caller, validated, planner fallback or
\* demo, has at most 5 activities, 3 accommodation suggestions,
\* 2 transportation entries and 3 local tips
C12_ListLengthsBounded ==
    \A s \in ReturnedSuggestions :
        /\ Len(s.activities.v) <= 5
        /\ Len(s.accommodation_suggestions.v) <= 3
        /\ Len(s.transportation.v) <= 2
        /\ Len(s.local_tips.v) <= 3

\* the call under test is one of the two validators
IsValidation ==
    "outputs" \in DOMAIN call /\ call.fn \in {"validate_suggestion_data", "validate_suggestions"}

\* C13: after validation every field of every suggestion is populated and
\* non-empty, whatever the raw input: a missing, null or empty text or list
\* has been replaced by fallback content
C13_AllFieldsPopulated ==
    IsValidation =>
        \A i \in 1..Len(call.outputs) :
            /\ call.outputs[i].kind = "return"
            /\ \A s \in SuggestionsOf(call.outputs[i]) :
                    \A k \in SuggestionKeys : Truthy(s[k])

\* the number of days a validated duration denotes, 0 when it denotes none
Days(duration) ==
    CASE duration.type = "int" -> IF duration.v > 0 THEN duration.v ELSE 0
      [] duration.type = "str" ->
            IF duration.v # << >> /\ \A j \in 1..Len(duration.v) : IsDigit(duration.v[j])
            THEN ParseInt(duration.v) ELSE 0
      [] OTHER -> 0

\* C14: the duration of a validated suggestion is a positive whole number of
\* days for every raw duration, never zero
C14_DurationPositive ==
    IsValidation =>
        \A s \in ReturnedSuggestions : Days(s.duration) > 0

\* C15: validation is idempotent: the validator applied to its own output
\* returns that output unchanged
C15_ValidationIdempotent ==
    (IsValidation /\ Len(call.outputs) = 2) =>
        /\ call.outputs[2].kind = "return"
        /\ IF call.fn = "validate_suggestion_data"
           THEN \A k \in SuggestionKeys :
                    PyEq(call.outputs[1].value[k], call.outputs[2].value[k])
           ELSE /\ Len(call.outputs[2].value) = Len(call.outputs[1].value)
                /\ \A i \in 1..Len(call.outputs[1].value) : \A k \in SuggestionKeys :
                        PyEq(call.outputs[1].value[i][k], call.outputs[2].value[i][k])

\* a raw suggestion with free-text duration, a missing description and
\* over-long lists has been validated twice
C15_Witness ==
    /\ IsValidation
    /\ call.fn = "validate_suggestion_data"
    /\ Len(call.outputs) = 2
    /\ call.raw["activities"].type = "list"
    /\ Len(call.raw["activities"].v) > 5
    /\ call.raw["local_tips"].type = "NoneType"
    /\ call.raw["transportInformation"].type = "dict"
    /\ call.outputs[2].kind = "return"
    /\ Len(call.outputs[2].value.activities.v) = 5

\* C16: converting between two currency codes that are equal ignoring case
\* returns the original amount and rate 1.0, and neither the live-rate
\* provider nor the fallback table is consulted
C16_SameCurrencyIdentity ==
    (call.pc = "done"
     /\ call.fn \in {"CurrencyTool_new", "CurrencyTool_fixed", "travel_tools.CurrencyTool"}
     /\ Upper(call.from_currency) = Upper(call.to_currency))
        => /\ call.result.status = "success"
           /\ call.result.converted_amount = call.amount
           /\ call.result.rate = RATE_ONE
           /\ call.result.consulted = {}

\* C17: detect_request_type returns the intent of the six-rule cascade, first
\* match wins: two or more comprehensive keywords give suggestions; else a pure
\* flight keyword gives flights; else an itinerary keyword gives itinerary; else
\* a flight word with a travel-content word gives suggestions; else a flight
\* word alone gives flights; else suggestions.  The result is always one of the
\* three intents.
ComprehensiveMatches == KeywordCount(comprehensive_keywords, Lower(call.user_input))

PureFlightMatched == AnyWord(pure_flight_keywords, Lower(call.user_input))

ItineraryMatched == AnyWord(itinerary_keywords, Lower(call.user_input))

FlightWordPresent == AnyWord(flight_words, Lower(call.user_input))

TravelContentPresent == AnyWord(travel_content_words, Lower(call.user_input))

Classified == call.pc = "done" /\ call.fn = "detect_request_type"

MumbaiDelhiRequest == <<"f","l","i","g","h","t","s"," ","f","r","o","m"," ","M","u","m","b","a","i"," ","t","o"," ","D","e","l","h","i"," ","o","n"," ","2","0","2","5","-","0","7","-","1","5">>

C18_MumbaiDelhiSlots ==
    (call.pc = "done" /\ call.fn \in {"detect_request_type", "extract_origin_destination",
                                      "extract_travel_dates", "parse_flight_query"}
     /\ call.user_input = MumbaiDelhiRequest)
        => CASE call.fn = "detect_request_type" -> call.result = "flights"
             [] call.fn = "extract_origin_destination" ->
                    /\ call.result.origin = PyStr(<<"M","u","m","b","a","i">>)
                    /\ call.result.destination = PyStr(<<"D","e","l","h","i">>)
             [] call.fn = "extract_travel_dates" ->
                    /\ call.result.departure_date.kind = "this_year"
                    /\ call.result.departure_date.month = 7
                    /\ call.result.departure_date.day = 15
             [] OTHER ->
                    /\ call.result.origin = PyStr(<<"M","u","m","b","a","i">>)
                    /\ call.result.destination = PyStr(<<"D","e","l","h","i">>)
                    /\ call.result.departure_date = PyStr(<<"2","0","2","5","-","0","7","-","1","5">>)

\* C19: with two or more parenthesized three-letter codes in the text the first
\* is the origin and the second the destination, each the city of the IATA
\* table (DMM Dammam, SZX Shenzhen) or the upper-case code when the table has
\* none, whatever from-to phrase or city names the text has besides.
Extracted == call.pc = "done" /\ call.fn = "extract_origin_destination"

CodesTyped == FindCodes(Upper(call.user_input), 1)

TableCity(code) ==
    CASE code = <<"D","M","M">> -> <<"D","a","m","m","a","m">>
      [] code = <<"S","Z","X">> -> <<"S","h","e","n","z","h","e","n">>
      [] Lower(code) \in DOMAIN iata_to_city -> iata_to_city[Lower(code)]
      [] OTHER -> code

C19_AirportCodesFirst ==
    (Extracted /\ Len(CodesTyped) >= 2)
        => /\ call.result.origin = PyStr(TableCity(CodesTyped[1]))
           /\ call.result.destination = PyStr(TableCity(CodesTyped[2]))

\* a text with a from-to phrase naming Mumbai and Delhi and two codes, one of
\* them unknown to the table: the codes win
C19_Witness ==
    /\ Extracted
    /\ Len(CodesTyped) >= 2
    /\ from_to_patterns(Lower(call.user_input))[1].matched
    /\ Contains(call.user_input, <<"M","u","m","b","a","i">>)
    /\ call.result.origin = PyStr(<<"X","Q","Z">>)
    /\ call.result.destination = PyStr(<<"D","a","m","m","a","m">>)

\* C20: without a pair of airport codes and without a from-to phrase, one city
\* mentioned is the destination and the preferred departure city the origin;
\* of two or more with the preferred city among them the preferred city is the
\* origin and another of them the destination; of two or more without the
\* preferred city the one mentioned first in the text is the origin and the
\* one mentioned second the destination.
NoPhrase ==
    \A k \in 1..3 : ~from_to_patterns(Lower(call.user_input))[k].matched

\* the position in the text where a city is first mentioned as a word, 0 if never
FirstMention(key) ==
    LET s == Lower(call.user_input)
        at == {i \in 1..Len(s) :
                  /\ WordAt(s, i, key)
                  /\ i = 1 \/ ~IsWordChar(s[i - 1])
                  /\ i + Len(key) > Len(s) \/ ~IsWordChar(s[i + Len(key)])}
    IN  IF at = {} THEN 0 ELSE Smallest(at)

Mentioned == {k \in 1..Len(common_cities) : FirstMention(common_cities[k][1]) # 0}

MentionedNames == {common_cities[k][2] : k \in Mentioned}

\* the city mentioned first in the text among the cities of a set
EarliestOf(cities) ==
    common_cities[CHOOSE k \in cities : \A j \in cities :
        FirstMention(common_cities[k][1]) <= FirstMention(common_cities[j][1])][2]

MentionedFirst == EarliestOf(Mentioned)

MentionedSecond ==
    EarliestOf({k \in Mentioned : common_cities[k][2] # MentionedFirst})

C20_CityNameFallback ==
    (Extracted /\ Len(CodesTyped) < 2 /\ NoPhrase)
        => /\ Cardinality(Mentioned) = 1 =>
                 /\ call.result.destination = PyStr(MentionedFirst)
                 /\ call.preferred_departure_city # <<>> =>
                        call.result.origin = PyStr(call.preferred_departure_city)
           /\ (Cardinality(Mentioned) >= 2
               /\ call.preferred_departure_city \in MentionedNames) =>
                 /\ call.result.origin = PyStr(call.preferred_departure_city)
                 /\ call.result.destination.type = "str"
                 /\ call.result.destination.v
                        \in MentionedNames \ {call.preferred_departure_city}
           /\ (Cardinality(Mentioned) >= 2
               /\ call.preferred_departure_city \notin MentionedNames) =>
                 /\ call.result.origin = PyStr(MentionedFirst)
                 /\ call.result.destination = PyStr(MentionedSecond)

\* what the text of a request does not determine, by the helper the code
\* uses for it: the route and date of parse_flight_query for the tool, the
\* route of extract_origin_destination and a date other than the default
\* of extract_travel_dates for the helpers of app.py
Undetermined ==
    IF call.fn = "intelligent_flight_search"
    THEN MissingInfo(parse_flight_query(call.user_input))
    ELSE {key \in {"origin", "destination"} :
             /\ key = "destination" => call.fn = "handle_flight_search_request"
             /\ ~Truthy(extract_origin_destination(call.user_input,
                            call.preferred_departure_city)[key])}
         \cup (IF extract_travel_dates(call.user_input).departure_date.kind = "from_now"
               THEN {"departure_date"} ELSE {})

\* C21: whenever origin, destination or departure date cannot be determined
\* from the user's input, no flight search is performed with a guessed value
\* and the answer asks for what is missing, naming it
C21_NoSilentGuess ==
    (/\ call.pc = "done"
     /\ call.fn \in {"intelligent_flight_search", "handle_flight_search_request",
                     "enhance_suggestions_with_flights"}
     /\ Undetermined # {})
        => /\ ~call.result.invoked
           /\ call.result.kind = "clarification"
           /\ call.result.named # {}

\* C22: flight_search and search_flights_flexible answer with a message
\* instead of flights and call no provider when origin, destination or
\* departure date is absent, empty or the text None
C22_ClarifiesMissing ==
    (/\ call.pc = "done"
     /\ call.fn \in {"flight_search", "search_flights_flexible"}
     /\ \E key \in {"origin", "destination", "departure_date"} :
            AbsentOrNone(call.result.args[key]))
        => /\ call.result.kind \in {"clarification", "error"}
           /\ ~call.result.invoked

\* the number of times a payload writes a key
KeyCount(s, key) == Cardinality({i \in 1..Len(s) : AfterKey(s, i, key) > 0})

\* C23: a raw string that writes "origin": "X" and "destination": "Y" yields
\* origin X and destination Y, with or without a departure_date key and with
\* or without braces, also when it is not JSON
C23_RawStringParsed ==
    (/\ call.pc = "done"
     /\ call.fn \in {"flight_search", "search_flights_flexible"}
     /\ KeyCount(call.origin.v, "origin") = 1
     /\ KeyCount(call.origin.v, "destination") = 1
     /\ Truthy(QuotedGroup(call.origin.v, "origin", 1))
     /\ Truthy(QuotedGroup(call.origin.v, "destination", 1)))
        => /\ call.result.args.origin = QuotedGroup(call.origin.v, "origin", 1)
           /\ call.result.args.destination = QuotedGroup(call.origin.v, "destination", 1)

\* a request of caller t used the provider as the retry allows
RetriedOnce(t) ==
    /\ call.th[t].calls <= 2
    /\ call.th[t].refreshes <= 1
    /\ call.th[t].refreshes = 1 => call.th[t].first = "401"
    /\ call.th[t].calls = 2 => call.th[t].refreshes = 1
    /\ call.th[t].pc = "done" =>
          /\ call.th[t].result \in {"data", "error"}
          /\ call.th[t].first = "401" =>
                /\ call.th[t].refreshes = 1
                /\ call.th[t].second = "none" =>
                      call.th[t].calls = 1 /\ call.th[t].result = "error"
                /\ call.th[t].second # "none" =>
                      /\ call.th[t].calls = 2
                      /\ call.th[t].result = ReturnedFor(call.th[t].second)

RECURSIVE NumericPart(_)
NumericPart(s) ==
    IF s = << >> THEN << >>
    ELSE (IF IsDigit(Head(s)) \/ Head(s) = "." THEN <<Head(s)>> ELSE << >>)
         \o NumericPart(Tail(s))

RECURSIVE NumericSum(_)
NumericSum(entries) ==
    IF entries = << >> THEN 0
    ELSE (IF Head(entries).price.type \in {"str", "int"}
          THEN Hundredths(NumericPart(PriceText(Head(entries).price))) ELSE 0)
         + NumericSum(Tail(entries))

\* C25: for the flights, hotels and activities plan_trip can obtain, total_cost
\* is the sum of the numeric parts of the prices, and computing it does not
\* raise
C25_TotalCostIsSum ==
    (call.pc = "done" /\ call.fn \in {"plan_trip", "_calculate_total_cost"})
        => call.result = Returned("total_cost",
                                  NumericSum(call.flights \o call.hotels \o call.activities))

\* C26: two syntheses of fallback flights for the same origin, destination
\* and dates give the same list
C26_FallbackDeterministic ==
    (call.pc = "second" /\ fs.pc = "done")
        => fs.outcome = "list" /\ call.outcome = "list" /\ fs.flights = call.flights

\* C29: in travel_tools.FlightSearchTool._get_fallback_flights the times of
\* every index 0, 1, 2 have an hour in 0..23 and a minute in 0..59, and the
\* synthesis ends with a list, one-way and round-trip
C29_FallbackTimesValid ==
    fs.tool = "travel_tools" =>
        /\ (fs.pc = "tt_fallback" /\ fs.i \in 0..2) => TtTimesValid(fs.i, fs.return_date)
        /\ (fs.pc = "done" /\ fs.attempt > 0) => fs.outcome = "list"

\* C27: ItineraryPlannerTool.execute returns a list of exactly 2 suggestions
\* for every outcome of the model call
C27_AlwaysTwoSuggestions ==
    (call.pc = "done" /\ call.fn = "execute")
        => /\ call.result.kind = "return"
           /\ Len(call.result.value) = 2
           /\ \A i \in 1..2 : DOMAIN call.result.value[i] = SuggestionKeys

\* C28: when an advance-conversation request returns success with session id
\* s and a history, the store at that moment holds a session s whose history
\* is the returned one, whatever ran while its reasoning loop was awaited
C28_ReturnedHistoryIsStored ==
    [][\A r \in Slots :
            (/\ req[r].pc = "awaiting"
             /\ req'[r].pc = "idle"
             /\ response'.route = "agent"
             /\ response'.status = "success")
            => /\ response'.session_id \in DOMAIN conversation_sessions'
               /\ get_messages(heap'[conversation_sessions'[response'.session_id]])
                    = response'.history
      ]_vars

\* C30: when the reasoning loop raises, the request ends as an internal
\* failure and nothing is rolled back: the session of the request keeps the
\* user turn of the request, the keys of the request's context and the
\* last-activity time set by the request, it has no assistant turn of the
\* request, and the store and every stored session stay as they were
C30_FailureKeepsSession ==
    [][\A r \in Slots :
            (/\ req[r].pc = "awaiting"
             /\ req'[r].pc = "idle"
             /\ response'.request.raised # EMPTY)
            => LET session == heap[req[r].obj]
                   turns == {session.messages[i] : i \in 1..Len(session.messages)}
               IN /\ response'.http = 500
                  /\ response'.status = "error"
                  /\ response'.route = "agent"
                  /\ [role |-> "user", content |-> req[r].query,
                      arrival |-> req[r].arrival] \in turns
                  /\ \A k \in DOMAIN req[r].context :
                        /\ k \in DOMAIN session.context
                        /\ session.context[k] = req[r].context[k]
                  /\ session.last_activity = now
                  /\ \A m \in turns : ~(m.role = "assistant" /\ m.arrival = req[r].arrival)
                  /\ conversation_sessions' = conversation_sessions
                  /\ \A sid \in DOMAIN conversation_sessions :
                        heap'[conversation_sessions[sid]] = heap[conversation_sessions[sid]]
      ]_vars

\* a failed request whose session is stored with the user turn and the
\* context of the request, next to another session
C30_Witness ==
    /\ response.http = 500
    /\ response.route = "agent"
    /\ response.request.raised # EMPTY
    /\ response.request.session_id \in DOMAIN conversation_sessions
    /\ \E B \in DOMAIN conversation_sessions : B # response.request.session_id
    /\ LET session == heap[conversation_sessions[response.request.session_id]]
       IN /\ \E i \in 1..Len(session.messages) :
                /\ session.messages[i].role = "user"
                /\ session.messages[i].arrival = response.request.arrival
          /\ DOMAIN session.context # {}
          /\ \A i \in 1..Len(session.messages) : session.messages[i].role # "assistant"

====
